---- MODULE Spec2Model ----
(***************************************************************************)
(* Model of the scene renderer of text_image_api: the dimension resolver,  *)
(* the text wrapper, the node normalizer, the layout engine, the position  *)
(* finalizer and the POST /scene handler that drives them.                 *)
(*                                                                         *)
(* Numbers.  Lengths are JavaScript numbers in the source.  They are       *)
(* modelled as exact rationals <<n, d>> (d > 0, lowest terms); the value   *)
(* `undefined` of an optional number is the pair <<0, 0>>.  Floating-point *)
(* rounding is not modelled.                                               *)
(*                                                                         *)
(* Strings.  Texts and raw dimension strings are sequences of one-letter   *)
(* strings, so that splitting, trimming and measuring are computed.        *)
(* Identifiers are TLA+ strings (only concatenation and equality are used).*)
(***************************************************************************)
EXTENDS Integers, Sequences, FiniteSets, TLC

VARIABLES
  pc,               \* where the running operation stands
  input,            \* what the operation was called with
  output,           \* what a pure function returned
  world,            \* the collaborators: letter advances, font files
  sceneConfig,      \* the scene handed to computeSceneLayout
  autoNodeCounter,  \* the module-level counter of synthetic ids
  normalized,       \* the normalized root node
  rootLayout,       \* the Layout Result tree
  thrown,           \* the exception in flight or caught, if any
  events,           \* what has happened so far, in order
  status            \* the HTTP status answered, 0 while none

engineVars ==
  <<world, sceneConfig, autoNodeCounter, normalized, rootLayout, thrown, events,
    status>>

vars == <<pc, input, output, engineVars>>

----------------------------------------------------------------------------
(* Rational arithmetic *)

Abs(x) == IF x < 0 THEN -x ELSE x

RECURSIVE GCD(_, _)
GCD(a, b) == IF b = 0 THEN a ELSE GCD(b, a % b)

Norm(n, d) ==
  LET s == IF d < 0 THEN -1 ELSE 1
      g == GCD(Abs(n), Abs(d))
  IN  <<(s * n) \div g, (s * d) \div g>>

R(n) == <<n, 1>>
Q(n, d) == Norm(n, d)
Zero == <<0, 1>>
Undef == <<0, 0>>
IsDef(x) == x[2] # 0

RAdd(a, b) == Norm(a[1] * b[2] + b[1] * a[2], a[2] * b[2])
RSub(a, b) == Norm(a[1] * b[2] - b[1] * a[2], a[2] * b[2])
RMul(a, b) == Norm(a[1] * b[1], a[2] * b[2])
RDiv(a, b) == Norm(a[1] * b[2], a[2] * b[1])
RLt(a, b) == a[1] * b[2] < b[1] * a[2]
RLe(a, b) == a[1] * b[2] <= b[1] * a[2]
RGt(a, b) == RLt(b, a)
RMin(a, b) == IF RLt(a, b) THEN a ELSE b
RMax(a, b) == IF RLt(a, b) THEN b ELSE a
RIsZero(a) == a[1] = 0
\* the ?? operator on optional numbers
Coalesce(a, b) == IF IsDef(a) THEN a ELSE b

----------------------------------------------------------------------------
(* Dimension specs *)

AUTO_DIMENSION == [mode |-> "AUTO", value |-> Zero]
FillDim == [mode |-> "FILL", value |-> Zero]
Fixed(v) == [mode |-> "FIXED", value |-> v]
Percent(p) == [mode |-> "PERCENT", value |-> p]

\* A plausible slip: FILL handed out even when fill is not allowed.
resolveDimensionValue_ignoresAllowFill(spec, available, allowFill) ==
  CASE spec.mode = "FIXED" -> spec.value
    [] spec.mode = "PERCENT" ->
         IF ~IsDef(available) THEN Undef ELSE RMul(available, spec.value)
    [] spec.mode = "FILL" -> available
    [] OTHER -> Undef

resolveDimensionValue(spec, available, allowFill) ==
  CASE spec.mode = "FIXED" -> spec.value
    [] spec.mode = "PERCENT" ->
         IF ~IsDef(available) THEN Undef ELSE RMul(available, spec.value)
    [] spec.mode = "FILL" -> IF allowFill THEN available ELSE Undef
    [] OTHER -> Undef

----------------------------------------------------------------------------
(* Parsing of raw dimension values (layout.ts, parseDimension) *)

\* A raw JSON value of a width/height field: absent, a number, or a string
\* (a sequence of letters).
NoValue == [t |-> "none", v |-> Zero, s |-> <<>>]
Num(r) == [t |-> "num", v |-> r, s |-> <<>>]
Str(s) == [t |-> "str", v |-> Zero, s |-> s]

Digits == {"0", "1", "2", "3", "4", "5", "6", "7", "8", "9"}

DigitVal(c) ==
  CASE c = "0" -> 0 [] c = "1" -> 1 [] c = "2" -> 2 [] c = "3" -> 3
    [] c = "4" -> 4 [] c = "5" -> 5 [] c = "6" -> 6 [] c = "7" -> 7
    [] c = "8" -> 8 [] c = "9" -> 9

\* String.prototype.toLowerCase, letter by letter
LowerOf(c) ==
  CASE c = "A" -> "a" [] c = "B" -> "b" [] c = "C" -> "c" [] c = "D" -> "d"
    [] c = "E" -> "e" [] c = "F" -> "f" [] c = "G" -> "g" [] c = "H" -> "h"
    [] c = "I" -> "i" [] c = "J" -> "j" [] c = "K" -> "k" [] c = "L" -> "l"
    [] c = "M" -> "m" [] c = "N" -> "n" [] c = "O" -> "o" [] c = "P" -> "p"
    [] c = "Q" -> "q" [] c = "R" -> "r" [] c = "S" -> "s" [] c = "T" -> "t"
    [] c = "U" -> "u" [] c = "V" -> "v" [] c = "W" -> "w" [] c = "X" -> "x"
    [] c = "Y" -> "y" [] c = "Z" -> "z" [] OTHER -> c

ToLower(s) == [i \in 1..Len(s) |-> LowerOf(s[i])]

\* String.prototype.trim (the only white space of the model is the space)
RECURSIVE TrimLeft(_)
TrimLeft(s) ==
  IF s # <<>> /\ Head(s) = " " THEN TrimLeft(Tail(s)) ELSE s

RECURSIVE TrimRight(_)
TrimRight(s) ==
  IF s # <<>> /\ s[Len(s)] = " " THEN TrimRight(SubSeq(s, 1, Len(s) - 1)) ELSE s

Trim(s) == TrimRight(TrimLeft(s))

\* the longest prefix of s made of digits
RECURSIVE DigitPrefix(_)
DigitPrefix(s) ==
  IF s # <<>> /\ Head(s) \in Digits
  THEN <<Head(s)>> \o DigitPrefix(Tail(s))
  ELSE <<>>

RECURSIVE DigitsValue(_, _)
DigitsValue(s, acc) ==
  IF s = <<>> THEN acc ELSE DigitsValue(Tail(s), 10 * acc + DigitVal(Head(s)))

RECURSIVE Pow10(_)
Pow10(k) == IF k = 0 THEN 1 ELSE 10 * Pow10(k - 1)

\* A decimal literal at the head of s: optional sign, digits, optional
\* fraction.  Gives the value and the number of letters read; the value is
\* Undef (NaN) when no digit was read.  Exponents and hexadecimal literals are
\* outside the model's raw strings.
DecimalPrefix(s) ==
  LET signed == s # <<>> /\ Head(s) \in {"-", "+"}
      neg == s # <<>> /\ Head(s) = "-"
      body == IF signed THEN Tail(s) ELSE s
      ip == DigitPrefix(body)
      rest == SubSeq(body, Len(ip) + 1, Len(body))
      hasDot == rest # <<>> /\ Head(rest) = "."
      fp == IF hasDot THEN DigitPrefix(Tail(rest)) ELSE <<>>
      \* "5." reads the dot, "." alone reads nothing
      used == (IF signed THEN 1 ELSE 0) + Len(ip)
                + (IF hasDot /\ Len(ip) + Len(fp) > 0 THEN 1 + Len(fp) ELSE 0)
      mag == Norm(DigitsValue(ip, 0) * Pow10(Len(fp)) + DigitsValue(fp, 0),
                  Pow10(Len(fp)))
  IN  IF Len(ip) + Len(fp) = 0
      THEN [value |-> Undef, used |-> 0]
      ELSE [value |-> IF neg THEN Norm(-mag[1], mag[2]) ELSE mag, used |-> used]

\* parseFloat: leading white space skipped, trailing text ignored
parseFloat(s) == DecimalPrefix(TrimLeft(s)).value

\* Number(string) on a trimmed, non-empty string: the whole string must be
\* one literal
NumberOfString(s) ==
  LET p == DecimalPrefix(s)
  IN  IF IsDef(p.value) /\ p.used = Len(s) THEN p.value ELSE Undef

parseDimension(value) ==
  IF value.t = "num" THEN Fixed(value.v)
  ELSE IF value.t = "str"
  THEN LET trimmed == ToLower(Trim(value.s))
           isPct == trimmed # <<>> /\ trimmed[Len(trimmed)] = "%"
           parsed == IF isPct
                     THEN parseFloat(SubSeq(trimmed, 1, Len(trimmed) - 1))
                     ELSE Undef
           numeric == NumberOfString(trimmed)
       IN  IF trimmed = <<>> THEN AUTO_DIMENSION
           ELSE IF trimmed = <<"a", "u", "t", "o">> \/ trimmed = <<"h", "u", "g">>
           THEN AUTO_DIMENSION
           ELSE IF trimmed = <<"f", "i", "l", "l">> THEN FillDim
           ELSE IF isPct /\ IsDef(parsed)
           THEN Percent(RDiv(RMax(Zero, parsed), R(100)))
           ELSE IF IsDef(numeric) THEN Fixed(numeric)
           ELSE AUTO_DIMENSION
  ELSE AUTO_DIMENSION

----------------------------------------------------------------------------
(* Fonts (config/fonts.ts) *)

Other == [t |-> "other", v |-> Zero, s |-> <<>>]

\* FONT_WEIGHT_ALIASES; "" when the key is not in the table
FONT_WEIGHT_ALIASES(value) ==
  CASE value = <<"t", "h", "i", "n">> -> "Thin"
    [] value = <<"1", "0", "0">> -> "Thin"
    [] value = <<"e", "x", "t", "r", "a", "l", "i", "g", "h", "t">> -> "ExtraLight"
    [] value = <<"u", "l", "t", "r", "a", "l", "i", "g", "h", "t">> -> "ExtraLight"
    [] value = <<"2", "0", "0">> -> "ExtraLight"
    [] value = <<"l", "i", "g", "h", "t">> -> "Light"
    [] value = <<"3", "0", "0">> -> "Light"
    [] value = <<"r", "e", "g", "u", "l", "a", "r">> -> "Regular"
    [] value = <<"n", "o", "r", "m", "a", "l">> -> "Regular"
    [] value = <<"4", "0", "0">> -> "Regular"
    [] value = <<"m", "e", "d", "i", "u", "m">> -> "Medium"
    [] value = <<"5", "0", "0">> -> "Medium"
    [] value = <<"s", "e", "m", "i", "b", "o", "l", "d">> -> "SemiBold"
    [] value = <<"d", "e", "m", "i", "b", "o", "l", "d">> -> "SemiBold"
    [] value = <<"6", "0", "0">> -> "SemiBold"
    [] value = <<"b", "o", "l", "d">> -> "Bold"
    [] value = <<"7", "0", "0">> -> "Bold"
    [] value = <<"e", "x", "t", "r", "a", "b", "o", "l", "d">> -> "ExtraBold"
    [] value = <<"u", "l", "t", "r", "a", "b", "o", "l", "d">> -> "ExtraBold"
    [] value = <<"8", "0", "0">> -> "ExtraBold"
    [] value = <<"b", "l", "a", "c", "k">> -> "Black"
    [] value = <<"h", "e", "a", "v", "y">> -> "Black"
    [] value = <<"9", "0", "0">> -> "Black"
    [] OTHER -> ""

IsAlnum(c) ==
  c \in Digits \/ c \in {"a", "b", "c", "d", "e", "f", "g", "h", "i", "j", "k",
                         "l", "m", "n", "o", "p", "q", "r", "s", "t", "u", "v",
                         "w", "x", "y", "z"}

\* replace(/[^a-z0-9]/g, "")
RECURSIVE KeepAlnum(_)
KeepAlnum(s) ==
  IF s = <<>> THEN <<>>
  ELSE IF IsAlnum(Head(s)) THEN <<Head(s)>> \o KeepAlnum(Tail(s))
  ELSE KeepAlnum(Tail(s))

\* String(n) for an integer n >= 0
RECURSIVE NatToString(_)
NatToString(n) ==
  LET d == n % 10
      c == CHOOSE x \in Digits : DigitVal(x) = d
  IN  IF n < 10 THEN <<c>> ELSE Append(NatToString(n \div 10), c)

\* String(input) of a raw value; numbers of the model's inputs are integers
StringOf(raw) ==
  IF raw.t = "str" THEN raw.s
  ELSE IF raw.v[1] < 0 THEN <<"-">> \o NatToString(-raw.v[1])
  ELSE NatToString(raw.v[1])

\* "" stands for null
normalizeFontWeight(raw) ==
  IF raw.t \in {"str", "num"}
  THEN FONT_WEIGHT_ALIASES(KeepAlnum(ToLower(StringOf(raw))))
  ELSE ""

Estedad == <<"E", "s", "t", "e", "d", "a", "d">>

isFontName(value) == value = Estedad

\* registerFont reads the font file the first time a family is asked for;
\* env.fontFilesOk says whether that registration succeeds.  The cache of
\* registered families holds successes only, so the outcome is the same with
\* or without it.
resolveFontRequest(env, fontNameInput, fontWeightInput) ==
  LET trimmed == Trim(fontNameInput.s)
      normalizedWeight == normalizeFontWeight(fontWeightInput)
      fontWeight == IF fontWeightInput.t = "none" THEN "Medium"
                    ELSE normalizedWeight
      fail(msg) == [ok |-> FALSE, error |-> msg, fontWeight |-> ""]
  IN  IF fontNameInput.t # "none" /\ fontNameInput.t # "str"
      THEN fail("'fontName' must be a string value.")
      ELSE IF fontNameInput.t = "str" /\ trimmed = <<>>
      THEN fail("'fontName' cannot be empty.")
      ELSE IF fontNameInput.t = "str" /\ ~isFontName(trimmed)
      THEN fail("Unsupported 'fontName'.")
      ELSE IF fontWeightInput.t # "none" /\ normalizedWeight = ""
      THEN fail("Unsupported 'fontWeight'.")
      ELSE IF ~env.fontFilesOk
      THEN fail("Unable to register the requested font.")
      ELSE [ok |-> TRUE, error |-> "", fontWeight |-> fontWeight]

----------------------------------------------------------------------------
(* Scene nodes and the normalizer (layout.ts, normalizeSceneNode) *)

DEFAULT_RECT_SIZE == 100
DEFAULT_FONT_SIZE == 64
DEFAULT_LETTER_SPACING == -5

\* Raw padding: absent, one number, or an object with optional edges
NoPadding ==
  [t |-> "none", v |-> Zero, top |-> Undef, right |-> Undef,
   bottom |-> Undef, left |-> Undef]
PadAll(r) == [NoPadding EXCEPT !.t = "num", !.v = r]
PadEdges(top, right, bottom, left) ==
  [t |-> "obj", v |-> Zero, top |-> top, right |-> right,
   bottom |-> bottom, left |-> left]

\* A scene node as the caller sends it with every field absent.  Absent
\* strings are "", absent numbers Undef, absent flags FALSE (wrap: TRUE, the
\* code asks `wrap !== false`), absent maxLines 0, absent colours "".  The
\* fields basis and shrink, which no layout or paint code reads, are left out.
\* A field the caller filled with a value of another type than the declared
\* one (a number where a string or an array is declared) is named in wrongType;
\* isNull marks an entry of a children array that is JSON null.
Node0 ==
  [id |-> "", type |-> "", layoutMode |-> "", children |-> <<>>,
   width |-> NoValue, height |-> NoValue, padding |-> NoPadding,
   itemSpacing |-> Undef, primaryAxisAlign |-> "", counterAxisAlign |-> "",
   grow |-> Undef, x |-> Undef, y |-> Undef, absolute |-> FALSE,
   text |-> <<>>, fontName |-> NoValue, fontWeight |-> NoValue,
   fontSize |-> Undef, lineHeight |-> Undef, letterSpacing |-> Undef,
   textDirection |-> "", textAlign |-> "", wrap |-> TRUE, maxLines |-> 0,
   imageUrl |-> "", opacity |-> Undef, clipsContent |-> FALSE,
   backgroundColor |-> "", cornerRadius |-> Undef, wrongType |-> {},
   isNull |-> FALSE]

\* String.prototype.toUpperCase on the enumeration words callers send
toUpperCase(s) ==
  CASE s = "frame" -> "FRAME" [] s = "group" -> "GROUP" [] s = "rect" -> "RECT"
    [] s = "text" -> "TEXT" [] s = "image" -> "IMAGE"
    [] s = "none" -> "NONE" [] s = "horizontal" -> "HORIZONTAL"
    [] s = "vertical" -> "VERTICAL" [] s = "Vertical" -> "VERTICAL"
    [] s = "min" -> "MIN" [] s = "center" -> "CENTER" [] s = "max" -> "MAX"
    [] s = "space_between" -> "SPACE_BETWEEN" [] s = "stretch" -> "STRETCH"
    [] s = "left" -> "LEFT" [] s = "right" -> "RIGHT"
    [] OTHER -> s

normalizePadding(padding) ==
  IF padding.t = "num"
  THEN [top |-> padding.v, right |-> padding.v, bottom |-> padding.v,
        left |-> padding.v]
  ELSE [top |-> Coalesce(padding.top, Zero),
        right |-> Coalesce(padding.right, Zero),
        bottom |-> Coalesce(padding.bottom, Zero),
        left |-> Coalesce(padding.left, Zero)]

normalizeLayoutMode(in) ==
  LET value == toUpperCase(in)
  IN  IF value = "HORIZONTAL" \/ value = "VERTICAL" THEN value ELSE "NONE"

normalizePrimaryAxisAlign(in) ==
  LET value == toUpperCase(in)
  IN  IF value = "CENTER" \/ value = "MAX" \/ value = "SPACE_BETWEEN"
      THEN value ELSE "MIN"

normalizeCounterAxisAlign(in) ==
  LET value == toUpperCase(in)
  IN  IF value = "CENTER" \/ value = "MAX" \/ value = "STRETCH"
      THEN value ELSE "MIN"

\* Code points of the model's letters; "alef" is ARABIC LETTER ALEF and
\* "alefIsolated" its presentation form, ARABIC LETTER ALEF ISOLATED FORM
\* (U+FE8D); the others are HEBREW LETTER ALEF (U+05D0), SYRIAC LETTER ALAPH
\* (U+0710) and THAANA LETTER HAA (U+0780)
CodePoint(c) ==
  CASE c = "alef" -> 1575 [] c = "alefIsolated" -> 65165
    [] c = "hebrewAlef" -> 1488 [] c = "syriacAlaph" -> 1808
    [] c = "thaanaHaa" -> 1920
    [] c = " " -> 32 [] c = "\n" -> 10
    [] c = "a" -> 97 [] c = "b" -> 98 [] OTHER -> 63

\* RTL_CHAR_PATTERN
IsRtlChar(c) ==
  LET p == CodePoint(c)
  IN  \/ (1424 <= p /\ p <= 1535) \/ (1536 <= p /\ p <= 1791)
      \/ (1872 <= p /\ p <= 1919) \/ (2208 <= p /\ p <= 2303)
      \/ (64336 <= p /\ p <= 65023) \/ (65136 <= p /\ p <= 65279)

detectTextDirection(text) ==
  IF \E i \in 1..Len(text) : IsRtlChar(text[i]) THEN "RTL" ELSE "LTR"

\* nextNodeId: the id minted from the counter value after the increment
nextNodeId(counter) == "node-" \o ToString(counter + 1)

RECURSIVE normalizeSceneNode(_, _, _)

\* (input.children ?? []).map(...): children are normalized left to right,
\* each starting from the counter the previous one left
RECURSIVE NormalizeChildren(_, _, _, _, _)
NormalizeChildren(children, index, assignedId, counter, acc) ==
  IF index > Len(children)
  THEN [nodes |-> acc, counter |-> counter, err |-> ""]
  ELSE LET r == normalizeSceneNode(children[index],
                  assignedId \o "-" \o ToString(index - 1), counter)
       IN  IF r.err # ""
           THEN [nodes |-> acc, counter |-> r.counter, err |-> r.err]
           ELSE NormalizeChildren(children, index + 1, assignedId, r.counter,
                                  Append(acc, r.node))

\* The member accesses and method calls of normalizeSceneNode that throw a
\* TypeError: input.id of null (line 123); toUpperCase of a type that is not
\* a string (line 126; `??` replaces null and undefined only); toUpperCase
\* in normalizeLayoutMode, normalizePrimaryAxisAlign, normalizeCounterAxisAlign
\* (lines 99, 105, 112; `?.` guards null and undefined only); map of children
\* that are not an array (line 134).  The other fields are read behind a
\* typeof test or compared, which never throws.
ThrowingFields ==
  {"type", "layoutMode", "children", "primaryAxisAlign", "counterAxisAlign"}

NormalizeThrows(in) == in.isNull \/ in.wrongType \cap ThrowingFields # {}

\* Gives the normalized node and the value of autoNodeCounter afterwards.
\* Caller ids of the model carry no surrounding white space.
normalizeSceneNode(in, path, counter) ==
  LET hasId == in.id # "" /\ "id" \notin in.wrongType
      assignedId == IF hasId THEN in.id ELSE path \o "-" \o nextNodeId(counter)
      counter1 == IF hasId THEN counter ELSE counter + 1
      type == toUpperCase(IF in.type = "" THEN "FRAME" ELSE in.type)
      layoutMode == IF in.layoutMode # "" THEN normalizeLayoutMode(in.layoutMode)
                    ELSE IF type = "GROUP" THEN "NONE"
                    ELSE normalizeLayoutMode("")
      kids == IF in.isNull \/ in.wrongType \cap {"type", "layoutMode"} # {}
              THEN [nodes |-> <<>>, counter |-> counter1, err |-> "TypeError"]
              ELSE IF "children" \in in.wrongType
              THEN [nodes |-> <<>>, counter |-> counter1, err |-> "TypeError"]
              ELSE NormalizeChildren(in.children, 1, assignedId, counter1, <<>>)
      \* typeof input.text === "string" ? input.text : undefined, here and
      \* in layoutTextNode (line 341): a text of another type reads as none
      text == IF "text" \in in.wrongType THEN <<>> ELSE in.text
      textDirection == IF in.textDirection = "RTL" THEN "RTL"
                       ELSE IF in.textDirection = "LTR" THEN "LTR"
                       ELSE detectTextDirection(text)
      alignValue == toUpperCase(in.textAlign)
  IN  [node |->
         [id |-> assignedId,
          type |-> type,
          layoutMode |-> layoutMode,
          children |-> kids.nodes,
          \* a padding that is neither a number nor an object has no edges
          padding |-> IF "padding" \in in.wrongType
                      THEN normalizePadding(NoPadding)
                      ELSE normalizePadding(in.padding),
          itemSpacing |-> IF IsDef(in.itemSpacing)
                          THEN RMax(Zero, in.itemSpacing) ELSE Zero,
          primaryAxisAlign |-> normalizePrimaryAxisAlign(in.primaryAxisAlign),
          counterAxisAlign |-> normalizeCounterAxisAlign(in.counterAxisAlign),
          widthSpec |-> parseDimension(in.width),
          heightSpec |-> parseDimension(in.height),
          grow |-> IF IsDef(in.grow) /\ RGt(in.grow, Zero) THEN in.grow ELSE Zero,
          x |-> Coalesce(in.x, Zero),
          y |-> Coalesce(in.y, Zero),
          absolute |-> in.absolute,
          textAlign |-> IF alignValue \in {"LEFT", "CENTER", "RIGHT"}
                        THEN alignValue
                        ELSE IF textDirection = "RTL" THEN "RIGHT" ELSE "LEFT",
          textDirection |-> textDirection,
          wrap |-> in.wrap,
          letterSpacing |-> Coalesce(in.letterSpacing, R(DEFAULT_LETTER_SPACING)),
          \* fields the spread ...input carries over unchanged
          text |-> text,
          fontName |-> in.fontName,
          fontWeight |-> in.fontWeight,
          fontSize |-> in.fontSize,
          lineHeight |-> in.lineHeight,
          maxLines |-> in.maxLines,
          imageUrl |-> in.imageUrl,
          clipsContent |-> in.clipsContent,
          opacity |-> IF IsDef(in.opacity)
                      THEN RMin(R(1), RMax(Zero, in.opacity)) ELSE R(1),
          backgroundColor |-> in.backgroundColor,
          cornerRadius |-> in.cornerRadius],
       counter |-> kids.counter,
       err |-> IF kids.err # "" THEN kids.err
               ELSE IF NormalizeThrows(in) THEN "TypeError" ELSE ""]

----------------------------------------------------------------------------
(* Text measuring and wrapping (scene/text.ts) *)

\* The measuring surface: ctx.font is the font it holds, ctx.adv the advance
\* of each letter, and the fonts of ctx.wide draw every letter twice as wide.
\* ctx.measureText(char).width: the advance of one letter in the held font
measureText(ctx, char) ==
  IF ctx.font \in ctx.wide THEN RMul(R(2), ctx.adv[char]) ELSE ctx.adv[char]

\* the font a canvas context holds before any is set ("10px sans-serif")
CanvasFont == [weight |-> "", size |-> R(10)]

\* a surface on which every font has the same advances
Surface(adv) == [font |-> CanvasFont, wide |-> {}, adv |-> adv]

RECURSIVE SumAdvance(_, _, _)
SumAdvance(ctx, text, letterSpacing) ==
  IF text = <<>> THEN Zero
  ELSE RAdd(RAdd(measureText(ctx, Head(text)), letterSpacing),
            SumAdvance(ctx, Tail(text), letterSpacing))

getTextWidthWithLetterSpacing(ctx, text, letterSpacing) ==
  RSub(SumAdvance(ctx, text, letterSpacing), letterSpacing)

\* String.prototype.split(sep) for a one-letter separator
RECURSIVE SplitFrom(_, _, _)
SplitFrom(text, sep, cur) ==
  IF text = <<>> THEN <<cur>>
  ELSE IF Head(text) = sep
       THEN <<cur>> \o SplitFrom(Tail(text), sep, <<>>)
       ELSE SplitFrom(Tail(text), sep, Append(cur, Head(text)))

Split(text, sep) == SplitFrom(text, sep, <<>>)

\* Array.prototype.join(sep)
RECURSIVE Join(_, _)
Join(parts, sep) ==
  IF parts = <<>> THEN <<>>
  ELSE IF Len(parts) = 1 THEN parts[1]
  ELSE parts[1] \o <<sep>> \o Join(Tail(parts), sep)

\* A plausible slip: the loop measures the line it has, not the line with the
\* next word added.
RECURSIVE WrapLoop_measuresLine(_, _, _, _, _, _, _)
WrapLoop_measuresLine(ctx, words, i, line, lines, maxWidth, letterSpacing) ==
  IF i > Len(words)
  THEN IF line # <<>> THEN Append(lines, line) ELSE lines
  ELSE LET testLine == IF line # <<>> THEN line \o <<" ">> \o words[i]
                       ELSE words[i]
           testWidth == getTextWidthWithLetterSpacing(ctx, line, letterSpacing)
       IN  IF RGt(testWidth, maxWidth) /\ line # <<>>
           THEN WrapLoop_measuresLine(ctx, words, i + 1, words[i],
                                      Append(lines, line), maxWidth,
                                      letterSpacing)
           ELSE WrapLoop_measuresLine(ctx, words, i + 1, testLine, lines,
                                      maxWidth, letterSpacing)

\* the for loop of wrapTextRTL / wrapTextLTR from index i on
RECURSIVE WrapLoop(_, _, _, _, _, _, _)
WrapLoop(ctx, words, i, line, lines, maxWidth, letterSpacing) ==
  IF i > Len(words)
  THEN IF line # <<>> THEN Append(lines, line) ELSE lines
  ELSE LET testLine == IF line # <<>> THEN line \o <<" ">> \o words[i]
                       ELSE words[i]
           testWidth == getTextWidthWithLetterSpacing(ctx, testLine, letterSpacing)
       IN  IF RGt(testWidth, maxWidth) /\ line # <<>>
           THEN WrapLoop(ctx, words, i + 1, words[i], Append(lines, line),
                         maxWidth, letterSpacing)
           ELSE WrapLoop(ctx, words, i + 1, testLine, lines,
                         maxWidth, letterSpacing)

wrapTextRTL(ctx, text, maxWidth, letterSpacing) ==
  WrapLoop(ctx, Split(text, " "), 1, <<>>, <<>>, maxWidth, letterSpacing)

wrapTextLTR(ctx, text, maxWidth, letterSpacing) ==
  WrapLoop(ctx, Split(text, " "), 1, <<>>, <<>>, maxWidth, letterSpacing)

----------------------------------------------------------------------------
(* The layout engine (layout.ts): leaf and text nodes *)

\* A Layout Result.  err # "" stands for an exception thrown while the node
\* (or one below it) was laid out; the other fields then carry no meaning.
NoTextLayout ==
  [present |-> FALSE, lines |-> <<>>, fontWeight |-> "", fontSize |-> Zero,
   letterSpacing |-> Zero, lineHeight |-> Zero, direction |-> "LTR",
   textAlign |-> "left"]

LayoutResult(node, width, height, children, textLayout) ==
  [err |-> "", node |-> node, width |-> width, height |-> height,
   localX |-> Zero, localY |-> Zero, absX |-> Zero, absY |-> Zero,
   children |-> children, textLayout |-> textLayout]

Thrown(node, msg) ==
  [LayoutResult(node, Zero, Zero, <<>>, NoTextLayout) EXCEPT !.err = msg]

createConstraints(width, height, allowFill) ==
  [availableWidth |-> width, availableHeight |-> height, allowFill |-> allowFill]

layoutLeafNode(node, constraints) ==
  LET shouldDefault == node.type = "RECT" \/ node.type = "IMAGE"
      fallback == IF shouldDefault THEN R(DEFAULT_RECT_SIZE) ELSE Zero
      width == Coalesce(resolveDimensionValue(node.widthSpec,
                          constraints.availableWidth, constraints.allowFill),
                        fallback)
      height == Coalesce(resolveDimensionValue(node.heightSpec,
                           constraints.availableHeight, constraints.allowFill),
                         fallback)
  IN  LayoutResult(node, RMax(Zero, width), RMax(Zero, height), <<>>,
                   NoTextLayout)

\* the loop over the paragraphs: each one kept whole or wrapped
RECURSIVE ParagraphLines(_, _, _, _, _)
ParagraphLines(node, ctx, paragraphs, maxWidth, letterSpacing) ==
  IF paragraphs = <<>> THEN <<>>
  ELSE LET paragraph == Head(paragraphs)
           here ==
             IF ~node.wrap \/ ~IsDef(maxWidth) \/ RLe(maxWidth, Zero)
             THEN <<paragraph>>
             ELSE IF node.textDirection = "RTL"
             THEN wrapTextRTL(ctx, paragraph, maxWidth, letterSpacing)
             ELSE wrapTextLTR(ctx, paragraph, maxWidth, letterSpacing)
       IN  here \o ParagraphLines(node, ctx, Tail(paragraphs), maxWidth,
                                  letterSpacing)

\* the lines of a text node before maxLines cuts them
TextLines(node, ctx, constraints) ==
  LET maxWidth == resolveDimensionValue(node.widthSpec,
                    constraints.availableWidth, constraints.allowFill)
      lines == ParagraphLines(node, ctx, Split(node.text, "\n"), maxWidth,
                              node.letterSpacing)
  IN  IF Len(lines) = 0 THEN <<<<>>>> ELSE lines

\* lines.reduce((max, line) => Math.max(max, width(line)), 0)
RECURSIVE MaxLineWidth(_, _, _)
MaxLineWidth(ctx, lines, letterSpacing) ==
  IF lines = <<>> THEN Zero
  ELSE RMax(getTextWidthWithLetterSpacing(ctx, Head(lines), letterSpacing),
            MaxLineWidth(ctx, Tail(lines), letterSpacing))

\* A plausible slip: the cut keeps one line too many.
TruncateLines_offByOne(lines, maxLines) ==
  IF maxLines # 0 /\ Len(lines) > maxLines
  THEN SubSeq(lines, 1, maxLines + 1)
  ELSE lines

\* if (node.maxLines && lines.length > node.maxLines) lines.length = maxLines
\* (maxLines >= 0 here; a negative length throws, see layoutTextNode)
TruncateLines(lines, maxLines) ==
  IF maxLines # 0 /\ Len(lines) > maxLines
  THEN SubSeq(lines, 1, maxLines)
  ELSE lines

\* `${fontCssWeight} ${fontSize}px ${fontFamily}, ...`: the family is the
\* one family of the library
buildFontStack(fontWeight, fontSize) == [weight |-> fontWeight, size |-> fontSize]

\* A plausible slip: the font reaches the surface only after the node was
\* measured, so the measuring uses whatever font the surface held.
SetFont_afterMeasuring(ctx, font) == ctx

\* ctx.font = font, set before anything is measured
SetFont(ctx, font) == [ctx EXCEPT !.font = font]

\* maxLines of the model's inputs is an integer
layoutTextNode(node, env, constraints) ==
  LET fontResolution == resolveFontRequest(env, node.fontName, node.fontWeight)
      fontSize == IF IsDef(node.fontSize) /\ RGt(node.fontSize, Zero)
                  THEN node.fontSize ELSE R(DEFAULT_FONT_SIZE)
      ctx == SetFont(env.ctx, buildFontStack(fontResolution.fontWeight,
                                             fontSize))
      lineHeight == IF IsDef(node.lineHeight) /\ RGt(node.lineHeight, Zero)
                    THEN node.lineHeight ELSE RMul(fontSize, Q(14, 10))
      letterSpacing == node.letterSpacing
      allLines == TextLines(node, ctx, constraints)
      textWidth == MaxLineWidth(ctx, allLines, letterSpacing)
      lines == TruncateLines(allLines, node.maxLines)
      width == Coalesce(resolveDimensionValue(node.widthSpec,
                          constraints.availableWidth, constraints.allowFill),
                        textWidth)
      height == Coalesce(resolveDimensionValue(node.heightSpec,
                           constraints.availableHeight, constraints.allowFill),
                         RMul(lineHeight, R(Len(lines))))
  IN  IF ~fontResolution.ok THEN Thrown(node, "SceneValidationError")
      ELSE IF node.maxLines < 0 THEN Thrown(node, "RangeError")
      ELSE LayoutResult(node, RMax(Zero, width), RMax(Zero, height), <<>>,
             [present |-> TRUE, lines |-> lines,
              fontWeight |-> fontResolution.fontWeight, fontSize |-> fontSize,
              letterSpacing |-> letterSpacing, lineHeight |-> lineHeight,
              direction |-> node.textDirection,
              textAlign |-> IF node.textAlign = "CENTER" THEN "center"
                            ELSE IF node.textAlign = "RIGHT" THEN "right"
                            ELSE "left"])

----------------------------------------------------------------------------
(* The layout engine: containers *)

RECURSIVE layoutNode(_, _, _)

\* the first exception among layouts, in the order they were computed
RECURSIVE FirstErr(_)
FirstErr(layouts) ==
  IF layouts = <<>> THEN ""
  ELSE IF Head(layouts).err # "" THEN Head(layouts).err
  ELSE FirstErr(Tail(layouts))

\* Math.max folded over a sequence of numbers, from start
RECURSIVE MaxOver(_, _)
MaxOver(values, start) ==
  IF values = <<>> THEN start
  ELSE MaxOver(Tail(values), RMax(start, Head(values)))

RECURSIVE SumOver(_)
SumOver(values) ==
  IF values = <<>> THEN Zero ELSE RAdd(Head(values), SumOver(Tail(values)))

\* the elements of a sequence that satisfy Test, in order
SelectIdx(n, Test(_)) ==
  LET RECURSIVE Go(_)
      Go(i) == IF i > n THEN <<>>
               ELSE IF Test(i) THEN <<i>> \o Go(i + 1) ELSE Go(i + 1)
  IN  Go(1)

\* childLayout.localX = padding.left + child.x; localY likewise
PlaceAbsolute(node, child, childLayout) ==
  [childLayout EXCEPT !.localX = RAdd(node.padding.left, child.x),
                      !.localY = RAdd(node.padding.top, child.y)]

\* the children of a NONE-mode container, each laid out and placed
AbsoluteChildLayouts(node, env) ==
  [i \in 1..Len(node.children) |->
     PlaceAbsolute(node, node.children[i],
                   layoutNode(node.children[i], env,
                              [availableWidth |-> Undef,
                               availableHeight |-> Undef,
                               allowFill |-> TRUE]))]

\* A plausible slip: the container is not widened to its own padding.
AbsoluteContainerResult_noMinimum(node, constraints, childLayouts) ==
  LET padding == node.padding
      n == Len(childLayouts)
      contentWidth ==
        MaxOver([i \in 1..n |-> RAdd(childLayouts[i].localX, childLayouts[i].width)],
                Zero)
      contentHeight ==
        MaxOver([i \in 1..n |-> RAdd(childLayouts[i].localY, childLayouts[i].height)],
                Zero)
      width == Coalesce(resolveDimensionValue(node.widthSpec,
                          constraints.availableWidth, constraints.allowFill),
                        RAdd(contentWidth, RMax(Zero, padding.right)))
      height == Coalesce(resolveDimensionValue(node.heightSpec,
                           constraints.availableHeight, constraints.allowFill),
                         RAdd(contentHeight, RMax(Zero, padding.bottom)))
  IN  IF FirstErr(childLayouts) # "" THEN Thrown(node, FirstErr(childLayouts))
      ELSE LayoutResult(node, width, height, childLayouts, NoTextLayout)

\* the size of a NONE-mode container around its laid out children
AbsoluteContainerResult(node, constraints, childLayouts) ==
  LET padding == node.padding
      n == Len(childLayouts)
      contentWidth ==
        MaxOver([i \in 1..n |-> RAdd(childLayouts[i].localX, childLayouts[i].width)],
                Zero)
      contentHeight ==
        MaxOver([i \in 1..n |-> RAdd(childLayouts[i].localY, childLayouts[i].height)],
                Zero)
      width0 == Coalesce(resolveDimensionValue(node.widthSpec,
                           constraints.availableWidth, constraints.allowFill),
                         RAdd(contentWidth, RMax(Zero, padding.right)))
      height0 == Coalesce(resolveDimensionValue(node.heightSpec,
                            constraints.availableHeight, constraints.allowFill),
                          RAdd(contentHeight, RMax(Zero, padding.bottom)))
      width == RMax(width0, RAdd(padding.left, padding.right))
      height == RMax(height0, RAdd(padding.top, padding.bottom))
  IN  IF FirstErr(childLayouts) # "" THEN Thrown(node, FirstErr(childLayouts))
      ELSE LayoutResult(node, width, height, childLayouts, NoTextLayout)

layoutAbsoluteContainer(node, env, constraints) ==
  AbsoluteContainerResult(node, constraints, AbsoluteChildLayouts(node, env))

\* grow || 1
GrowOrOne(child) == IF RIsZero(child.grow) THEN R(1) ELSE child.grow

\* A plausible slip: the leftover is divided by the number of children, not
\* by the number of gaps.
SpaceBetweenGap_perChild(node, totalChildren, axisAvailable, totalAxis) ==
  IF node.primaryAxisAlign = "SPACE_BETWEEN" /\ totalChildren > 1
     /\ IsDef(axisAvailable)
  THEN LET extra == RSub(axisAvailable, totalAxis)
       IN  IF RGt(extra, Zero) THEN RDiv(extra, R(totalChildren)) ELSE Zero
  ELSE node.itemSpacing

\* A plausible slip: when nothing is left over the gap stays at itemSpacing.
SpaceBetweenGap_keepsItemSpacing(node, totalChildren, axisAvailable, totalAxis) ==
  IF node.primaryAxisAlign = "SPACE_BETWEEN" /\ totalChildren > 1
     /\ IsDef(axisAvailable)
  THEN LET extra == RSub(axisAvailable, totalAxis)
       IN  IF RGt(extra, Zero) THEN RDiv(extra, R(totalChildren - 1))
           ELSE node.itemSpacing
  ELSE node.itemSpacing

\* let gap = node.itemSpacing; if (SPACE_BETWEEN && ...) { ... }
SpaceBetweenGap(node, totalChildren, axisAvailable, totalAxis) ==
  IF node.primaryAxisAlign = "SPACE_BETWEEN" /\ totalChildren > 1
     /\ IsDef(axisAvailable)
  THEN LET extra == RSub(axisAvailable, totalAxis)
       IN  IF RGt(extra, Zero) THEN RDiv(extra, R(totalChildren - 1)) ELSE Zero
  ELSE node.itemSpacing

\* the switch on primaryAxisAlign: the main-axis offset of the first child
StartOffset(node, leading, axisInner, occupied) ==
  CASE node.primaryAxisAlign = "CENTER" ->
         RAdd(leading, RMax(Zero, RDiv(RSub(axisInner, occupied), R(2))))
    [] node.primaryAxisAlign = "MAX" ->
         RAdd(leading, RMax(Zero, RSub(axisInner, occupied)))
    [] OTHER -> leading

\* A plausible slip: STRETCH applied along the main axis.
StretchChild_mainAxis(node, isHorizontal, innerWidth, innerHeight, childLayout) ==
  IF node.counterAxisAlign = "STRETCH"
  THEN IF isHorizontal /\ IsDef(innerWidth)
       THEN [childLayout EXCEPT !.width = innerWidth]
       ELSE IF ~isHorizontal /\ IsDef(innerHeight)
       THEN [childLayout EXCEPT !.height = innerHeight]
       ELSE childLayout
  ELSE childLayout

\* if (node.counterAxisAlign === "STRETCH") { ... }
StretchChild(node, isHorizontal, innerWidth, innerHeight, childLayout) ==
  IF node.counterAxisAlign = "STRETCH"
  THEN IF isHorizontal /\ IsDef(innerHeight)
       THEN [childLayout EXCEPT !.height = innerHeight]
       ELSE IF ~isHorizontal /\ IsDef(innerWidth)
       THEN [childLayout EXCEPT !.width = innerWidth]
       ELSE childLayout
  ELSE childLayout

\* the switch on counterAxisAlign: what is added to the leading cross padding
CrossShift(node, crossAvailable, childCrossSize) ==
  CASE node.counterAxisAlign = "CENTER" ->
         RMax(Zero, RDiv(RSub(crossAvailable, childCrossSize), R(2)))
    [] node.counterAxisAlign = "MAX" ->
         RMax(Zero, RSub(crossAvailable, childCrossSize))
    [] OTHER -> Zero

\* Map.prototype.set for each entry of a sequence of <<id, layout>> pairs, in
\* order: a later entry with the same id replaces the earlier one
RECURSIVE SetAll(_, _)
SetAll(map, entries) ==
  IF entries = <<>> THEN map
  ELSE SetAll((Head(entries)[1] :> Head(entries)[2]) @@ map, Tail(entries))

EmptyMap == [id \in {} |-> 0]

\* The positioning loop over the flow children.  The layouts are objects held
\* in the map flowLayouts under the child's id: the loop reads the object of
\* the child's id, changes it in place and advances the cursor by its size.
RECURSIVE PositionFlow(_, _, _, _, _)
PositionFlow(node, g, flowChildren, map, cursor) ==
  IF flowChildren = <<>> THEN map
  ELSE LET child == Head(flowChildren)
           stretched == StretchChild(node, g.isHorizontal, g.innerWidth,
                                     g.innerHeight, map[child.id])
           childCrossSize == IF g.isHorizontal THEN stretched.height
                             ELSE stretched.width
           crossOffset ==
             RAdd(IF g.isHorizontal THEN node.padding.top ELSE node.padding.left,
                  CrossShift(node, g.crossInner, childCrossSize))
           step == IF node.primaryAxisAlign = "SPACE_BETWEEN" THEN g.gap
                   ELSE node.itemSpacing
           placed ==
             IF g.isHorizontal
             THEN [stretched EXCEPT !.localX = cursor, !.localY = crossOffset]
             ELSE [stretched EXCEPT !.localX = crossOffset, !.localY = cursor]
           advance == IF g.isHorizontal THEN placed.width ELSE placed.height
       IN  PositionFlow(node, g, Tail(flowChildren),
                        (child.id :> placed) @@ map,
                        RAdd(cursor, RAdd(advance, step)))

\* What layoutAutoLayoutContainer knows before it lays out a child: its own
\* resolved and inner sizes and its flow children.
FlowFrame(node, constraints) ==
  LET padding == node.padding
      resolvedWidth == resolveDimensionValue(node.widthSpec,
                         constraints.availableWidth, constraints.allowFill)
      resolvedHeight == resolveDimensionValue(node.heightSpec,
                          constraints.availableHeight, constraints.allowFill)
      flowIdx == SelectIdx(Len(node.children),
                           LAMBDA i : ~node.children[i].absolute)
  IN  [isHorizontal |-> node.layoutMode = "HORIZONTAL",
       resolvedWidth |-> resolvedWidth,
       resolvedHeight |-> resolvedHeight,
       innerWidth |->
         IF IsDef(resolvedWidth)
         THEN RMax(Zero, RSub(resolvedWidth, RAdd(padding.left, padding.right)))
         ELSE Undef,
       innerHeight |->
         IF IsDef(resolvedHeight)
         THEN RMax(Zero, RSub(resolvedHeight, RAdd(padding.top, padding.bottom)))
         ELSE Undef,
       flowChildren |-> [k \in 1..Len(flowIdx) |-> node.children[flowIdx[k]]]]

AxisInner(f) == IF f.isHorizontal THEN f.innerWidth ELSE f.innerHeight
AxisSize(f, layout) == IF f.isHorizontal THEN layout.width ELSE layout.height
CrossSize(f, layout) == IF f.isHorizontal THEN layout.height ELSE layout.width

\* axisSpec.mode === "FILL" && ((isHorizontal ? innerWidth : innerHeight) ?? 0) > 0
ShouldFill(f, child) ==
  /\ (IF f.isHorizontal THEN child.widthSpec ELSE child.heightSpec).mode = "FILL"
  /\ RGt(Coalesce(AxisInner(f), Zero), Zero)

\* pass 1, one child: percent sizes resolved against the inner size, no fill
FirstLayout(env, f, child) ==
  layoutNode(child, env,
    createConstraints(
      IF child.widthSpec.mode = "PERCENT" /\ IsDef(f.innerWidth)
      THEN RMul(f.innerWidth, child.widthSpec.value) ELSE f.innerWidth,
      IF child.heightSpec.mode = "PERCENT" /\ IsDef(f.innerHeight)
      THEN RMul(f.innerHeight, child.heightSpec.value) ELSE f.innerHeight,
      FALSE))

\* pass 1: the children that are not deferred, in order
FirstLayouts(env, f) ==
  LET firstIdx == SelectIdx(Len(f.flowChildren),
                            LAMBDA k : ~ShouldFill(f, f.flowChildren[k]))
  IN  [j \in 1..Len(firstIdx) |-> FirstLayout(env, f, f.flowChildren[firstIdx[j]])]

\* childLayout.width = portion (height in a column) when portion is not 0
WithPortion(f, portion, childLayout) ==
  IF f.isHorizontal /\ ~RIsZero(portion)
  THEN [childLayout EXCEPT !.width = portion]
  ELSE IF ~f.isHorizontal /\ ~RIsZero(portion)
  THEN [childLayout EXCEPT !.height = portion]
  ELSE childLayout

\* pass 2, one child, the inner axis size being known
DeferredLayout(env, f, child, portion) ==
  WithPortion(f, portion,
    layoutNode(child, env,
      createConstraints(IF f.isHorizontal THEN portion ELSE f.innerWidth,
                        IF f.isHorizontal THEN f.innerHeight ELSE portion,
                        TRUE)))

\* the children deferred in pass 1
DeferredChildren(f) ==
  LET deferredIdx == SelectIdx(Len(f.flowChildren),
                               LAMBDA k : ShouldFill(f, f.flowChildren[k]))
  IN  [j \in 1..Len(deferredIdx) |-> f.flowChildren[deferredIdx[j]]]

\* node.itemSpacing * Math.max(flowChildren.length - 1, 0)
SpacingTotal(node, f) ==
  RMul(node.itemSpacing,
       R(IF Len(f.flowChildren) - 1 > 0 THEN Len(f.flowChildren) - 1 ELSE 0))

\* what is left of the inner axis size after pass 1, floored at 0
Remaining(node, f, first) ==
  RMax(RSub(AxisInner(f),
            RAdd(SumOver([j \in 1..Len(first) |-> AxisSize(f, first[j])]),
                 SpacingTotal(node, f))),
       Zero)

\* the sum of the grow weights, or the number of children when it is 0
TotalGrow(deferredChildren) ==
  LET growSum == SumOver([j \in 1..Len(deferredChildren) |->
                            GrowOrOne(deferredChildren[j])])
  IN  IF RIsZero(growSum) THEN R(Len(deferredChildren)) ELSE growSum

\* pass 2 over the deferred children, given their share of the space
DeferredWith(env, f, deferredChildren, remaining, totalGrow) ==
  [j \in 1..Len(deferredChildren) |->
     IF IsDef(AxisInner(f))
     THEN DeferredLayout(env, f, deferredChildren[j],
            RDiv(RMul(remaining, GrowOrOne(deferredChildren[j])), totalGrow))
     ELSE layoutNode(deferredChildren[j], env,
                     createConstraints(f.innerWidth, f.innerHeight, FALSE))]

DeferredLayouts(node, env, f, first) ==
  DeferredWith(env, f, DeferredChildren(f), Remaining(node, f, first),
               TotalGrow(DeferredChildren(f)))

\* the ids under which the layouts were stored in flowLayouts, in the order
\* of the calls to flowLayouts.set
StoredIds(f) ==
  LET firstIdx == SelectIdx(Len(f.flowChildren),
                            LAMBDA k : ~ShouldFill(f, f.flowChildren[k]))
  IN  [j \in 1..Len(firstIdx) |-> f.flowChildren[firstIdx[j]].id]
        \o [j \in 1..Len(DeferredChildren(f)) |-> DeferredChildren(f)[j].id]

\* the state after the two passes
FlowTotals(node, f, stored, storedIds) ==
  [flowChildren |-> f.flowChildren,
   isHorizontal |-> f.isHorizontal,
   stored |-> stored,
   flowLayouts |-> SetAll(EmptyMap,
                          [j \in 1..Len(stored) |-> <<storedIds[j], stored[j]>>]),
   totalAxis |-> SumOver([j \in 1..Len(stored) |-> AxisSize(f, stored[j])]),
   maxCross |-> MaxOver([j \in 1..Len(stored) |-> CrossSize(f, stored[j])], Zero),
   spacingTotal |-> SpacingTotal(node, f),
   resolvedWidth |-> f.resolvedWidth,
   resolvedHeight |-> f.resolvedHeight,
   innerWidth |-> f.innerWidth,
   innerHeight |-> f.innerHeight]

FlowPassAfterFirst(node, env, f, first) ==
  FlowTotals(node, f, first \o DeferredLayouts(node, env, f, first), StoredIds(f))

FlowPassIn(node, env, f) ==
  FlowPassAfterFirst(node, env, f, FirstLayouts(env, f))

\* The two sizing passes over the flow children of an auto-layout container
\* (flowChildren.forEach and the deferredFill loops): the layout computed for
\* each flow child, in the order in which they were stored in flowLayouts,
\* and the totals.
FlowPass(node, env, constraints) ==
  FlowPassIn(node, env, FlowFrame(node, constraints))

\* the sizes of the container once the passes are done: an AUTO size is
\* derived from the totals
AutoSizes(node, p) ==
  LET padW == RAdd(node.padding.left, node.padding.right)
      padH == RAdd(node.padding.top, node.padding.bottom)
      resolvedWidth ==
        IF IsDef(p.resolvedWidth) THEN p.resolvedWidth
        ELSE IF p.isHorizontal THEN RAdd(padW, RAdd(p.totalAxis, p.spacingTotal))
        ELSE RAdd(padW, p.maxCross)
      resolvedHeight ==
        IF IsDef(p.resolvedHeight) THEN p.resolvedHeight
        ELSE IF p.isHorizontal THEN RAdd(padH, p.maxCross)
        ELSE RAdd(padH, RAdd(p.totalAxis, p.spacingTotal))
  IN  [resolvedWidth |-> resolvedWidth,
       resolvedHeight |-> resolvedHeight,
       innerWidth |-> IF IsDef(p.resolvedWidth) THEN p.innerWidth
                      ELSE RMax(Zero, RSub(resolvedWidth, padW)),
       innerHeight |-> IF IsDef(p.resolvedHeight) THEN p.innerHeight
                       ELSE RMax(Zero, RSub(resolvedHeight, padH))]

\* gap, and what the positioning loop reads
Placement(node, p, s, gap) ==
  [isHorizontal |-> p.isHorizontal,
   innerWidth |-> s.innerWidth,
   innerHeight |-> s.innerHeight,
   crossInner |-> IF p.isHorizontal THEN s.innerHeight ELSE s.innerWidth,
   gap |-> gap,
   startOffset |->
     StartOffset(node,
       IF p.isHorizontal THEN node.padding.left ELSE node.padding.top,
       IF p.isHorizontal THEN s.innerWidth ELSE s.innerHeight,
       RAdd(p.totalAxis,
            IF Len(p.flowChildren) > 1
            THEN RMul(gap, R(Len(p.flowChildren) - 1)) ELSE Zero))]

PlacementOf(node, p, s) ==
  Placement(node, p, s,
            SpaceBetweenGap(node, Len(p.flowChildren),
                            IF p.isHorizontal THEN s.innerWidth ELSE s.innerHeight,
                            p.totalAxis))

\* the absolute children of an auto-layout container, laid out and placed
AbsoluteLayouts(node, env, s) ==
  LET absIdx == SelectIdx(Len(node.children), LAMBDA i : node.children[i].absolute)
  IN  [j \in 1..Len(absIdx) |->
         PlaceAbsolute(node, node.children[absIdx[j]],
           layoutNode(node.children[absIdx[j]], env,
                      createConstraints(s.innerWidth, s.innerHeight, TRUE)))]

\* absoluteLayouts.set(child.id, childLayout) for each absolute child
AbsoluteMap(node, absolute) ==
  LET absIdx == SelectIdx(Len(node.children), LAMBDA i : node.children[i].absolute)
  IN  SetAll(EmptyMap,
             [j \in 1..Len(absIdx) |-> <<node.children[absIdx[j]].id, absolute[j]>>])

\* orderedChildren and the result
AutoLayoutResult(node, p, s, positionedFlow, absolute, absoluteLayouts) ==
  IF FirstErr(p.stored \o absolute) # ""
  THEN Thrown(node, FirstErr(p.stored \o absolute))
  ELSE LayoutResult(node, s.resolvedWidth, s.resolvedHeight,
         [i \in 1..Len(node.children) |->
            IF node.children[i].id \in DOMAIN positionedFlow
            THEN positionedFlow[node.children[i].id]
            ELSE absoluteLayouts[node.children[i].id]],
         NoTextLayout)

AutoLayoutPlaced(node, p, s, g, absolute) ==
  AutoLayoutResult(node, p, s,
    PositionFlow(node, g, p.flowChildren, p.flowLayouts, g.startOffset),
    absolute, AbsoluteMap(node, absolute))

AutoLayoutSized(node, env, p, s) ==
  AutoLayoutPlaced(node, p, s, PlacementOf(node, p, s),
                   AbsoluteLayouts(node, env, s))

AutoLayoutAfterPasses(node, env, p) ==
  AutoLayoutSized(node, env, p, AutoSizes(node, p))

layoutAutoLayoutContainer(node, env, constraints) ==
  AutoLayoutAfterPasses(node, env, FlowPass(node, env, constraints))

layoutContainerNode(node, env, constraints) ==
  IF node.layoutMode = "NONE"
  THEN layoutAbsoluteContainer(node, env, constraints)
  ELSE layoutAutoLayoutContainer(node, env, constraints)

layoutNode(node, env, constraints) ==
  IF node.type = "TEXT" THEN layoutTextNode(node, env, constraints)
  ELSE IF Len(node.children) > 0 THEN layoutContainerNode(node, env, constraints)
  ELSE layoutLeafNode(node, constraints)

----------------------------------------------------------------------------
(* The position finalizer *)

\* A plausible slip: the children are positioned from the origin handed to
\* their parent, not from the parent's own absolute position.
RECURSIVE assignAbsolutePosition_fromOrigin(_, _, _)
assignAbsolutePosition_fromOrigin(layout, parentX, parentY) ==
  [layout EXCEPT
     !.absX = RAdd(parentX, layout.localX),
     !.absY = RAdd(parentY, layout.localY),
     !.children = [i \in 1..Len(layout.children) |->
                     assignAbsolutePosition_fromOrigin(layout.children[i],
                                                       parentX, parentY)]]

RECURSIVE assignAbsolutePosition(_, _, _)
assignAbsolutePosition(layout, parentX, parentY) ==
  LET absX == RAdd(parentX, layout.localX)
      absY == RAdd(parentY, layout.localY)
  IN  [layout EXCEPT
         !.absX = absX,
         !.absY = absY,
         !.children = [i \in 1..Len(layout.children) |->
                         assignAbsolutePosition(layout.children[i], absX, absY)]]

----------------------------------------------------------------------------
(* Bounds of the input sets *)

MaxVal == 3

\* lengths a caller can write: small integers, one negative
Lengths == {R(n) : n \in -1..MaxVal}
\* percent fractions as parseDimension produces them (value / 100)
Fractions == {Q(0, 1), Q(1, 2), Q(1, 1), Q(3, 2)}
DimSpecs == {AUTO_DIMENSION, FillDim} \cup {Fixed(v) : v \in Lengths}
              \cup {Percent(p) : p \in Fractions}
OptLengths == Lengths \cup {Undef}

\* every sequence over S of length at most n
SeqsUpTo(S, n) == UNION {[1..k -> S] : k \in 0..n}

NoNode == [id |-> "none"]
NoLayout == [err |-> "none"]
NoError == [name |-> "", message |-> "", statusCode |-> 0]
NoEnv == [ctx |-> Surface(<<>>), fontFilesOk |-> TRUE]

\* the engine at rest: the state of the variables a pure function never
\* touches
EngineIdle ==
  /\ world = NoEnv
  /\ sceneConfig = Node0
  /\ autoNodeCounter = 0
  /\ normalized = NoNode
  /\ rootLayout = NoLayout
  /\ thrown = NoError
  /\ events = <<>>
  /\ status = 0

----------------------------------------------------------------------------
(* computeSceneLayout, step by step *)

SceneValidationError(message) ==
  [name |-> "SceneValidationError", message |-> message, statusCode |-> 400]
InternalError(name) == [name |-> name, message |-> name, statusCode |-> 0]

RootWidthMessage == "Root scene frame must define a numeric width."
RootHeightMessage == "Root scene frame must define a numeric height."

\* A plausible slip: only the width is checked.
RootDimensionError_widthOnly(node) ==
  IF node.widthSpec.mode # "FIXED" THEN RootWidthMessage ELSE ""

\* the two checks on the normalized root; "" when both pass
RootDimensionError(node) ==
  IF node.widthSpec.mode # "FIXED" THEN RootWidthMessage
  ELSE IF node.heightSpec.mode # "FIXED" THEN RootHeightMessage
  ELSE ""

\* A plausible slip: the counter is left as the last call left it.
ResetCounter_missing(counter) == counter

\* autoNodeCounter = 0, the first statement of computeSceneLayout
ResetCounter(counter) == 0

\* autoNodeCounter = 0; normalized = normalizeSceneNode(scene, "root")
Normalize ==
  /\ pc = "compute"
  /\ LET r == normalizeSceneNode(sceneConfig, "root",
                                 ResetCounter(autoNodeCounter))
     IN  /\ autoNodeCounter' = r.counter
         /\ IF r.err # ""
            THEN /\ thrown' = InternalError(r.err)
                 /\ pc' = "thrown"
                 /\ normalized' = normalized
            ELSE /\ thrown' = thrown
                 /\ pc' = "normalized"
                 /\ normalized' = r.node
  /\ events' = Append(events, "normalize")
  /\ UNCHANGED <<input, output, world, sceneConfig, rootLayout, status>>

\* the checks that the root's width and height specs are FIXED
CheckRoot ==
  /\ pc = "normalized"
  /\ LET message == RootDimensionError(normalized)
     IN  IF message # ""
         THEN /\ thrown' = SceneValidationError(message)
              /\ pc' = "thrown"
         ELSE /\ thrown' = thrown
              /\ pc' = "checked"
  /\ UNCHANGED <<input, output, world, sceneConfig, autoNodeCounter, normalized,
                 rootLayout, events, status>>

\* rootLayout = layoutNode(normalized, measurementCtx, {...})
LayoutRoot ==
  /\ pc = "checked"
  /\ LET layout == layoutNode(normalized, world,
                     createConstraints(normalized.widthSpec.value,
                                       normalized.heightSpec.value, TRUE))
     IN  IF layout.err = "SceneValidationError"
         THEN /\ thrown' = SceneValidationError("font")
              /\ pc' = "thrown"
              /\ rootLayout' = rootLayout
         ELSE IF layout.err # ""
         THEN /\ thrown' = InternalError(layout.err)
              /\ pc' = "thrown"
              /\ rootLayout' = rootLayout
         ELSE /\ thrown' = thrown
              /\ pc' = "positioning"
              /\ rootLayout' = layout
  /\ events' = Append(events, "layoutNode")
  /\ UNCHANGED <<input, output, world, sceneConfig, autoNodeCounter, normalized,
                 status>>

\* assignAbsolutePosition(rootLayout, 0, 0); return rootLayout
Finalize ==
  /\ pc = "positioning"
  /\ rootLayout' = assignAbsolutePosition(rootLayout, Zero, Zero)
  /\ pc' = "laidout"
  /\ UNCHANGED <<input, output, world, sceneConfig, autoNodeCounter, normalized,
                 thrown, events, status>>

----------------------------------------------------------------------------
(* POST /scene (routes/scene.ts) *)

\* Number(value) of a JSON number or string
NumberOf(value) ==
  IF value.t = "num" THEN value.v
  ELSE IF Trim(value.s) = <<>> THEN Zero
  ELSE NumberOfString(Trim(value.s))

\* reshaper.PersianShaper.convertArabic: a letter of the Arabic block becomes
\* its presentation form, here a lone alef its isolated form; other
\* characters are kept
reshapeTextContent(text) ==
  [i \in 1..Len(text) |-> IF text[i] = "alef" THEN "alefIsolated" ELSE text[i]]

RECURSIVE preprocessSceneText(_)
preprocessSceneText(node) ==
  [node EXCEPT
     !.text = reshapeTextContent(node.text),
     !.children = [i \in 1..Len(node.children) |->
                     preprocessSceneText(node.children[i])]]

\* A plausible slip: every caught error is answered 500.
ErrorStatus_always500(error) == 500

\* the catch clause of the handler
ErrorStatus(error) ==
  IF error.name = "SceneValidationError" THEN error.statusCode ELSE 500

\* the drawing calls of paintLayoutNode, in document order
RECURSIVE PaintCalls(_)
RECURSIVE PaintChildren(_, _)
PaintChildren(children, i) ==
  IF i > Len(children) THEN <<>>
  ELSE PaintCalls(children[i]) \o PaintChildren(children, i + 1)
PaintCalls(layout) ==
  LET node == layout.node
  IN  (IF node.type = "RECT" \/ node.type = "FRAME"
       THEN <<"drawRect">> ELSE <<>>)
      \o (IF layout.textLayout.present /\ node.type = "TEXT"
          THEN [i \in 1..Len(layout.textLayout.lines) |-> "drawText"]
          ELSE <<>>)
      \o (IF node.imageUrl # "" /\ node.type = "IMAGE"
          THEN <<"loadImage", "drawImage">> ELSE <<>>)
      \o PaintChildren(layout.children, 1)

\* the calls made when loadImage rejects at the first image
RECURSIVE UpToLoadImage(_)
UpToLoadImage(calls) ==
  IF calls = <<>> THEN <<>>
  ELSE IF Head(calls) = "loadImage" THEN <<"loadImage">>
  ELSE <<Head(calls)>> \o UpToLoadImage(Tail(calls))

PaintEvents == {"fillRect", "drawRect", "drawText", "loadImage", "drawImage"}
UploadEvents == {"uploadToLiara", "uploadToUploadThing"}

Respond(code, body) ==
  /\ status' = code
  /\ output' = body
  /\ pc' = "responded"

\* lines 19-58: the scene is read, the overrides applied, the text reshaped
Receive ==
  /\ pc = "request"
  /\ LET parsedWidth == NumberOf(input.width)
         parsedHeight == NumberOf(input.height)
         withWidth == IF input.width.t # "none"
                      THEN [input.scene EXCEPT !.width = Num(parsedWidth)]
                      ELSE input.scene
         withHeight == IF input.height.t # "none"
                       THEN [withWidth EXCEPT !.height = Num(parsedHeight)]
                       ELSE withWidth
     IN  IF ~input.hasScene
         THEN Respond(400, "Missing 'scene' definition in body.")
                /\ sceneConfig' = sceneConfig
         ELSE IF input.width.t # "none"
                   /\ (~IsDef(parsedWidth) \/ RLe(parsedWidth, Zero))
         THEN Respond(400, "'width' override must be a positive number.")
                /\ sceneConfig' = sceneConfig
         ELSE IF input.height.t # "none"
                   /\ (~IsDef(parsedHeight) \/ RLe(parsedHeight, Zero))
         THEN Respond(400, "'height' override must be a positive number.")
                /\ sceneConfig' = withWidth
         ELSE /\ sceneConfig' = preprocessSceneText(withHeight)
              /\ pc' = "compute"
              /\ UNCHANGED <<status, output>>
  /\ UNCHANGED <<input, world, autoNodeCounter, normalized, rootLayout, thrown,
                 events>>

\* renderLayoutToImage up to the first await: the canvas is made and cleared.
\* What createCanvas does with a size that is not positive is the canvas
\* library's business: it may throw.
RenderStart ==
  /\ pc = "laidout"
  /\ \E canvasOk \in BOOLEAN :
       /\ (RGt(rootLayout.width, Zero) /\ RGt(rootLayout.height, Zero)) => canvasOk
       /\ IF canvasOk
          THEN /\ events' = Append(events, "fillRect")
               /\ pc' = "painting"
               /\ thrown' = thrown
          ELSE /\ events' = events
               /\ pc' = "thrown"
               /\ thrown' = InternalError("Error")
  /\ UNCHANGED <<input, output, world, sceneConfig, autoNodeCounter, normalized,
                 rootLayout, status>>

\* paintLayoutNode over the tree; loadImage may reject
Paint ==
  /\ pc = "painting"
  /\ LET calls == PaintCalls(rootLayout)
         hasImage == \E i \in 1..Len(calls) : calls[i] = "loadImage"
     IN  \E loaded \in BOOLEAN :
           /\ ~hasImage => loaded
           /\ IF loaded
              THEN /\ events' = events \o calls
                   /\ pc' = "painted"
                   /\ thrown' = thrown
              ELSE /\ events' = events \o UpToLoadImage(calls)
                   /\ pc' = "thrown"
                   /\ thrown' = InternalError("Error")
  /\ UNCHANGED <<input, output, world, sceneConfig, autoNodeCounter, normalized,
                 rootLayout, status>>

\* canvas.encode("png") and, for a pdf, createPdfFromImages
Encode ==
  /\ pc = "painted"
  /\ events' = Append(events, IF input.outputFormat = "pdf"
                              THEN "createPdf" ELSE "encode")
  /\ pc' = "upload"
  /\ UNCHANGED <<input, output, world, sceneConfig, autoNodeCounter, normalized,
                 rootLayout, thrown, status>>

\* A plausible slip: forceUploadThing is not looked at.
canUseLiara_ignoresForce == world.liaraConfigured

canUseLiara == ~input.useUploadThing /\ world.liaraConfigured

\* uploadWithFallback, first destination
UploadToLiara ==
  /\ pc = "upload"
  /\ canUseLiara
  /\ events' = Append(events, "uploadToLiara")
  /\ \E ok \in BOOLEAN :
       IF ok THEN Respond(200, "liaraUrl")
       ELSE pc' = "fallback" /\ UNCHANGED <<status, output>>
  /\ UNCHANGED <<input, world, sceneConfig, autoNodeCounter, normalized,
                 rootLayout, thrown>>

\* uploadWithFallback, second destination, and respondUploadError
UploadToUploadThing ==
  /\ \/ pc = "fallback"
     \/ pc = "upload" /\ ~canUseLiara
  /\ events' = Append(events, "uploadToUploadThing")
  /\ \E ok \in BOOLEAN :
       /\ ok => world.tokenSet
       /\ IF ok THEN Respond(200, "uploadThingUrl")
          ELSE Respond(500, "UploadError")
  /\ UNCHANGED <<input, world, sceneConfig, autoNodeCounter, normalized,
                 rootLayout, thrown>>

\* the catch clause: 400 for a SceneValidationError, 500 for anything else
RespondError ==
  /\ pc = "thrown"
  /\ Respond(ErrorStatus(thrown),
             IF thrown.name = "SceneValidationError" THEN thrown.message
             ELSE "Failed to render scene.")
  /\ UNCHANGED <<input, world, sceneConfig, autoNodeCounter, normalized,
                 rootLayout, thrown, events>>

----------------------------------------------------------------------------
(* Scenes *)

FillStr == Str(<<"f", "i", "l", "l">>)
AutoStr == Str(<<"a", "u", "t", "o">>)
HalfStr == Str(<<"5", "0", "%">>)

Rect(w, h) == [Node0 EXCEPT !.type = "RECT", !.width = w, !.height = h]
Frame(w, h) == [Node0 EXCEPT !.width = w, !.height = h]
\* a text of one line height and no letter spacing
Text(t, w, h) ==
  [Node0 EXCEPT !.type = "TEXT", !.text = t, !.width = w, !.height = h,
                !.letterSpacing = Zero, !.lineHeight = R(1)]
Container(mode, w, h, kids) ==
  [Node0 EXCEPT !.layoutMode = mode, !.width = w, !.height = h,
                !.children = kids]

UnitEnv ==
  [ctx |-> Surface([c \in {"a", "b", " ", "\n", "alef"} |-> R(1)]),
   fontFilesOk |-> TRUE]

FixedNums == {Num(v) : v \in Lengths}
Paddings == {NoPadding, PadAll(R(1)), PadAll(R(-1))}
Modes == {"HORIZONTAL", "VERTICAL"}
AlignPairs ==
  {<<"", "">>, <<"SPACE_BETWEEN", "">>, <<"", "STRETCH">>,
   <<"CENTER", "CENTER">>, <<"MAX", "MAX">>, <<"SPACE_BETWEEN", "STRETCH">>}

\* what a root's width or height field may hold
RootDims ==
  {NoValue, Num(R(-1)), Num(R(0)), Num(R(2)), HalfStr, FillStr, AutoStr,
   Str(<<"2">>), Str(<<>>)}

\* roots of every dimension shape, childless or with one child
RootScenes ==
  {[Node0 EXCEPT !.type = t, !.width = w, !.height = h, !.children = kids] :
     t \in {"", "RECT", "TEXT"}, w \in RootDims, h \in RootDims,
     kids \in {<<>>, <<Rect(NoValue, NoValue)>>}}

\* flow children for the alignment scenes
AlignKids ==
  {Rect(NoValue, NoValue), Rect(Num(R(1)), Num(R(1))),
   Rect(Num(R(2)), HalfStr), Frame(FillStr, FillStr),
   Text(<<"a", " ", "b">>, NoValue, NoValue)}

\* the sizes of those roots: one side varies, the other is 2
AlignSizes ==
  {<<w, Num(R(2))>> : w \in FixedNums} \cup {<<Num(R(2)), h>> : h \in FixedNums}

\* auto-layout roots of a fixed size under every alignment
AlignScenes ==
  {[Container(mode, size[1], size[2], kids) EXCEPT
      !.padding = pad, !.primaryAxisAlign = al[1], !.counterAxisAlign = al[2]] :
     mode \in Modes, size \in AlignSizes, pad \in Paddings, al \in AlignPairs,
     kids \in SeqsUpTo(AlignKids, 2) \ {<<>>}}

\* one to three children that fill the main axis, with the same grow
FillKids(mode, grow) ==
  LET w == IF mode = "HORIZONTAL" THEN FillStr ELSE NoValue
      h == IF mode = "HORIZONTAL" THEN NoValue ELSE FillStr
  IN  {[k EXCEPT !.grow = grow] :
         k \in {Rect(w, h), Frame(w, h), Text(<<"a">>, w, h)}}

FillScenesOf(mode, grow) ==
  {[Container(mode, w, h, kids) EXCEPT !.padding = pad, !.itemSpacing = sp] :
     w \in FixedNums, h \in {Num(R(0)), Num(R(2))},
     pad \in Paddings, sp \in {Undef, R(1)},
     kids \in SeqsUpTo(FillKids(mode, grow), 3) \ {<<>>}}

\* children told apart, or not, by the ids the caller gives them
IdKids ==
  {[Rect(Num(R(1)), Num(R(1))) EXCEPT !.id = "a"],
   [Rect(Num(R(2)), Num(R(2))) EXCEPT !.id = "a"],
   [Rect(Num(R(1)), Num(R(2))) EXCEPT !.id = "b"],
   [Rect(Num(R(1)), Num(R(1))) EXCEPT !.id = "a", !.absolute = TRUE,
                                       !.x = R(1), !.y = R(1)],
   Rect(Num(R(1)), Num(R(1)))}

IdScenes ==
  {[Container(mode, Num(R(3)), Num(R(3)), kids) EXCEPT !.primaryAxisAlign = al] :
     mode \in Modes \cup {""}, al \in {"", "SPACE_BETWEEN"},
     kids \in SeqsUpTo(IdKids, 3) \ {<<>>}}

\* containers inside a root: their own size may be anything
InnerKids ==
  {Rect(NoValue, NoValue), Rect(FillStr, HalfStr),
   [Rect(Num(R(1)), Num(R(1))) EXCEPT !.absolute = TRUE, !.x = R(1)]}

NestedScenes ==
  {Container(rootMode, Num(R(3)), Num(R(2)),
     <<[Container(mode, w, h, kids) EXCEPT !.padding = pad,
                                            !.counterAxisAlign = ca]>>) :
     rootMode \in Modes \cup {""}, mode \in Modes \cup {""},
     w \in {NoValue, FillStr, HalfStr, Num(R(-1)), Num(R(1))},
     h \in {NoValue, Num(R(1))}, pad \in Paddings, ca \in {"", "STRETCH"},
     kids \in SeqsUpTo(InnerKids, 2) \ {<<>>}}

----------------------------------------------------------------------------
(* Specification of computeSceneLayout *)

InitLayout ==
  /\ pc = "compute"
  /\ input = "scene"
  /\ output = Undef
  /\ world = UnitEnv
  /\ \/ sceneConfig \in RootScenes
     \/ sceneConfig \in AlignScenes
     \/ \E mode \in Modes, grow \in {Undef, R(2)} :
          sceneConfig \in FillScenesOf(mode, grow)
     \/ sceneConfig \in IdScenes
     \/ sceneConfig \in NestedScenes
  /\ autoNodeCounter = 0
  /\ normalized = NoNode
  /\ rootLayout = NoLayout
  /\ thrown = NoError
  /\ events = <<>>
  /\ status = 0

NextLayout == Normalize \/ CheckRoot \/ LayoutRoot \/ Finalize

SpecLayout == InitLayout /\ [][NextLayout]_vars

(* Properties of computeSceneLayout *)

\* every Layout Result of the tree under a result, the result included
RECURSIVE AllLayouts(_)
AllLayouts(layout) ==
  {layout} \cup UNION {AllLayouts(layout.children[i]) :
                         i \in 1..Len(layout.children)}

RootIsFixed ==
  /\ normalized.widthSpec.mode = "FIXED"
  /\ normalized.heightSpec.mode = "FIXED"

\* C1: once the root has been checked, a root whose width or height spec is
\* not FIXED has raised a SceneValidationError and no node has been laid out;
\* a root whose specs are both FIXED has raised no root-dimension error.
C1_RootMustBeFixed ==
  pc \in {"thrown", "checked", "positioning", "laidout"} =>
    IF RootIsFixed
    THEN thrown.message \notin {RootWidthMessage, RootHeightMessage}
    ELSE /\ pc = "thrown"
         /\ thrown.name = "SceneValidationError"
         /\ thrown.message \in {RootWidthMessage, RootHeightMessage}
         /\ \A i \in 1..Len(events) : events[i] # "layoutNode"
         /\ rootLayout = NoLayout

\* a root with a numeric width and a percentage height is rejected
C1_Witness ==
  /\ pc = "thrown"
  /\ normalized.widthSpec.mode = "FIXED"
  /\ normalized.heightSpec.mode = "PERCENT"
  /\ thrown = SceneValidationError(RootHeightMessage)
  /\ events = <<"normalize">>

\* C3: every node of the returned Layout Result tree has width >= 0 and
\* height >= 0.
C3_SizesNonNegative ==
  pc = "laidout" =>
    \A l \in AllLayouts(rootLayout) :
      RLe(Zero, l.width) /\ RLe(Zero, l.height)

\* the nodes layoutNode hands to layoutContainerNode
IsContainer(node) == node.type # "TEXT" /\ Len(node.children) > 0
IsAutoLayout(node) == IsContainer(node) /\ node.layoutMode # "NONE"

\* C4: for every container node of the result (NONE, HORIZONTAL or VERTICAL),
\* the children list is as long as the normalized node's children list and
\* its i-th entry is the layout of the i-th normalized child.
C4_ChildrenInOrder ==
  pc = "laidout" =>
    \A l \in AllLayouts(rootLayout) :
      IsContainer(l.node) =>
        /\ Len(l.children) = Len(l.node.children)
        /\ \A i \in 1..Len(l.children) :
             l.children[i].node = l.node.children[i]

\* the indices of a node's flow children
FlowIdx(node) == {i \in 1..Len(node.children) : ~node.children[i].absolute}

MainSpec(node) ==
  IF node.layoutMode = "HORIZONTAL" THEN node.widthSpec ELSE node.heightSpec
CrossSpec(node) ==
  IF node.layoutMode = "HORIZONTAL" THEN node.heightSpec ELSE node.widthSpec
MainPadding(node) ==
  IF node.layoutMode = "HORIZONTAL"
  THEN RAdd(node.padding.left, node.padding.right)
  ELSE RAdd(node.padding.top, node.padding.bottom)
CrossPadding(node) ==
  IF node.layoutMode = "HORIZONTAL"
  THEN RAdd(node.padding.top, node.padding.bottom)
  ELSE RAdd(node.padding.left, node.padding.right)
MainSize(l, parent) ==
  IF parent.layoutMode = "HORIZONTAL" THEN l.width ELSE l.height
CrossSizeOf(l, parent) ==
  IF parent.layoutMode = "HORIZONTAL" THEN l.height ELSE l.width
MainOffset(l, parent) ==
  IF parent.layoutMode = "HORIZONTAL" THEN l.localX ELSE l.localY

\* a HORIZONTAL container of fixed width whose flow children, at least one,
\* all have width FILL and the same grow, with no item spacing
IsEqualFillRow(node) ==
  /\ IsAutoLayout(node)
  /\ node.layoutMode = "HORIZONTAL"
  /\ node.widthSpec.mode = "FIXED"
  /\ RIsZero(node.itemSpacing)
  /\ FlowIdx(node) # {}
  /\ \A i \in FlowIdx(node) : node.children[i].widthSpec.mode = "FILL"
  /\ \A i, j \in FlowIdx(node) : node.children[i].grow = node.children[j].grow

\* C6: in a HORIZONTAL container of fixed width, inner width W, with N >= 1
\* flow children that all have width FILL and equal grow and with item
\* spacing 0, every flow child's width is W / N.
C6_EqualFillShares ==
  pc = "laidout" =>
    \A l \in AllLayouts(rootLayout) :
      (IsEqualFillRow(l.node) /\ Len(l.children) = Len(l.node.children)) =>
        LET W == RMax(Zero, RSub(l.node.widthSpec.value, MainPadding(l.node)))
            N == Cardinality(FlowIdx(l.node))
        IN  \A i \in FlowIdx(l.node) : l.children[i].width = RDiv(W, R(N))

\* a SPACE_BETWEEN container without padding, of fixed main size, with
\* exactly two flow children
IsSpaceBetweenPair(node) ==
  /\ IsAutoLayout(node)
  /\ node.primaryAxisAlign = "SPACE_BETWEEN"
  /\ \A side \in {"top", "right", "bottom", "left"} : RIsZero(node.padding[side])
  /\ MainSpec(node).mode = "FIXED"
  /\ Cardinality(FlowIdx(node)) = 2

FirstFlow(node) == CHOOSE i \in FlowIdx(node) : \A j \in FlowIdx(node) : i <= j
SecondFlow(node) == CHOOSE i \in FlowIdx(node) : \A j \in FlowIdx(node) : j <= i

\* C7 as stated: child 1's main-axis offset is 0 and child 2's is S - b.
C7_SpaceBetweenAsStated ==
  pc = "laidout" =>
    \A l \in AllLayouts(rootLayout) :
      (IsSpaceBetweenPair(l.node) /\ Len(l.children) = Len(l.node.children)) =>
        LET c1 == l.children[FirstFlow(l.node)]
            c2 == l.children[SecondFlow(l.node)]
            S == MainSpec(l.node).value
        IN  /\ MainOffset(c1, l.node) = Zero
            /\ MainOffset(c2, l.node) = RSub(S, MainSize(c2, l.node))

\* C7, amended: with S' = max(0, S), child 2's main-axis offset is
\* a + max(0, S' - T), where a is the main-axis size of child 1's entry and T
\* the sum of the two sizes measured in the flow passes; when the two ids
\* differ T = a + b, so child 2's offset is max(S' - b, a), and child 1's
\* offset is 0.  (The root is laid out with its own fixed sizes as the
\* available space, which is what fixes T.)
C7_SpaceBetweenPair ==
  pc = "laidout" =>
    /\ \A l \in AllLayouts(rootLayout) :
         ( /\ IsSpaceBetweenPair(l.node)
           /\ Len(l.children) = Len(l.node.children)
           /\ l.node.children[FirstFlow(l.node)].id
                # l.node.children[SecondFlow(l.node)].id ) =>
           LET c1 == l.children[FirstFlow(l.node)]
               c2 == l.children[SecondFlow(l.node)]
               a == MainSize(c1, l.node)
               b == MainSize(c2, l.node)
               S == RMax(Zero, MainSpec(l.node).value)
           IN  /\ MainOffset(c1, l.node) = Zero
               /\ MainOffset(c2, l.node) = RMax(RSub(S, b), a)
    /\ (IsSpaceBetweenPair(normalized)
          /\ Len(rootLayout.children) = Len(normalized.children)) =>
         LET c1 == rootLayout.children[FirstFlow(normalized)]
             c2 == rootLayout.children[SecondFlow(normalized)]
             a == MainSize(c1, normalized)
             S == RMax(Zero, MainSpec(normalized).value)
             T == FlowPass(normalized, world,
                    createConstraints(normalized.widthSpec.value,
                                      normalized.heightSpec.value, TRUE)).totalAxis
         IN  MainOffset(c2, normalized) = RAdd(a, RMax(Zero, RSub(S, T)))

\* two children that do not fit: the second one starts where the first ends
C7_Witness ==
  /\ pc = "laidout"
  /\ IsSpaceBetweenPair(normalized)
  /\ Len(rootLayout.children) = 2
  /\ normalized.children[1].id # normalized.children[2].id
  /\ RGt(RAdd(MainSize(rootLayout.children[1], normalized),
              MainSize(rootLayout.children[2], normalized)),
         MainSpec(normalized).value)
  /\ RGt(MainSize(rootLayout.children[1], normalized), Zero)
  /\ MainOffset(rootLayout.children[2], normalized)
       = MainSize(rootLayout.children[1], normalized)
  /\ MainOffset(rootLayout.children[1], normalized) = Zero

\* C8: in an auto-layout container with counterAxisAlign STRETCH and a fixed
\* cross-axis size, every flow child's cross-axis size equals the container's
\* inner cross-axis size: the size minus the cross-axis padding, floored at 0.
C8_StretchFillsCross ==
  pc = "laidout" =>
    \A l \in AllLayouts(rootLayout) :
      ( /\ IsAutoLayout(l.node)
        /\ l.node.counterAxisAlign = "STRETCH"
        /\ CrossSpec(l.node).mode = "FIXED"
        /\ Len(l.children) = Len(l.node.children) ) =>
        \A i \in FlowIdx(l.node) :
          CrossSizeOf(l.children[i], l.node)
            = RMax(Zero, RSub(CrossSpec(l.node).value, CrossPadding(l.node)))

\* a child with a fixed cross-axis size of its own has been stretched to
\* another size
C8_Witness ==
  /\ pc = "laidout"
  /\ IsAutoLayout(normalized)
  /\ normalized.counterAxisAlign = "STRETCH"
  /\ \E i \in FlowIdx(normalized) :
       /\ i <= Len(rootLayout.children)
       /\ CrossSpec(normalized.children[i]).mode = "FIXED"
       /\ CrossSpec(normalized.children[i]).value
            # CrossSizeOf(rootLayout.children[i], normalized)
       /\ CrossSizeOf(rootLayout.children[i], normalized)
            = RMax(Zero, RSub(CrossSpec(normalized).value, CrossPadding(normalized)))

----------------------------------------------------------------------------
(* Specification of the text layout alone *)

MaxTextLen == 5
MaxLines == 3

TextChars == {"a", " ", "\n"}

\* wrap flag and direction of a text node
TextFlows == {<<TRUE, "">>, <<TRUE, "RTL">>, <<FALSE, "">>}

\* TEXT nodes as a caller writes them
TextNodes ==
  {[Node0 EXCEPT !.type = "TEXT", !.text = t, !.maxLines = m, !.width = w,
                 !.height = h, !.wrap = f[1], !.textDirection = f[2],
                 !.letterSpacing = Zero, !.lineHeight = R(2)] :
     t \in SeqsUpTo(TextChars, MaxTextLen), m \in 0..MaxLines,
     w \in {NoValue, Num(R(1)), FillStr}, h \in {NoValue, Num(R(1))},
     f \in TextFlows}

\* the constraints a parent hands down
TextConstraints ==
  {createConstraints(Undef, Undef, TRUE), createConstraints(R(1), R(1), TRUE),
   createConstraints(R(2), Undef, FALSE)}

InitText ==
  /\ pc = "start"
  /\ input \in [node : TextNodes, constraints : TextConstraints]
  /\ output = NoLayout
  /\ world = UnitEnv
  /\ sceneConfig = Node0
  /\ autoNodeCounter = 0
  /\ normalized = NoNode
  /\ rootLayout = NoLayout
  /\ thrown = NoError
  /\ events = <<>>
  /\ status = 0

\* normalize the node, then lay it out as layoutNode does a TEXT node
LayoutText ==
  /\ pc = "start"
  /\ LET r == normalizeSceneNode(input.node, "root", 0)
     IN  /\ normalized' = r.node
         /\ autoNodeCounter' = r.counter
         /\ output' = layoutTextNode(r.node, world, input.constraints)
  /\ pc' = "done"
  /\ UNCHANGED <<input, world, sceneConfig, rootLayout, thrown, events, status>>

NextText == LayoutText

SpecText == InitText /\ [][NextText]_vars

Min(a, b) == IF a <= b THEN a ELSE b

\* C9: a TEXT node with maxLines = m >= 1 whose wrapping produces n lines
\* has exactly min(m, n) lines in its Text Layout record, the first
\* min(m, n) wrapped lines in order, and when its height spec cannot be
\* resolved its height is lineHeight * min(m, n).
C9_MaxLines ==
  (pc = "done" /\ normalized.maxLines >= 1) =>
    LET wrapped == TextLines(normalized, world.ctx, input.constraints)
        k == Min(normalized.maxLines, Len(wrapped))
        lines == output.textLayout.lines
        specHeight == resolveDimensionValue(normalized.heightSpec,
                        input.constraints.availableHeight,
                        input.constraints.allowFill)
    IN  /\ output.err = ""
        /\ Len(lines) = k
        /\ \A i \in 1..k : lines[i] = wrapped[i]
        /\ ~IsDef(specHeight) =>
             output.height = RMul(output.textLayout.lineHeight, R(k))

\* three lines cut to two, the height that of two lines
C9_Witness ==
  /\ pc = "done"
  /\ normalized.maxLines = 2
  /\ normalized.wrap
  /\ Len(TextLines(normalized, world.ctx, input.constraints)) = 3
  /\ output.textLayout.lines = <<<<"a">>, <<"a">>>>
  /\ output.height = R(4)

----------------------------------------------------------------------------
(* Specification of POST /scene: one request from arrival to response *)

Image(w, h) == [Rect(w, h) EXCEPT !.type = "IMAGE", !.imageUrl = "u"]

\* text nodes whose font request is refused, and one that is accepted
BadFontName == [Text(<<"a">>, NoValue, NoValue) EXCEPT !.fontName = Str(<<"x">>)]
EmptyFontName == [Text(<<"a">>, NoValue, NoValue) EXCEPT !.fontName = Str(<<" ">>)]
NumericFontName == [Text(<<"a">>, NoValue, NoValue) EXCEPT !.fontName = Num(R(1))]
BadFontWeight ==
  [Text(<<"a">>, NoValue, NoValue) EXCEPT !.fontWeight = Str(<<"x">>)]
GoodFont ==
  [Text(<<"a", " ", "alef">>, NoValue, NoValue) EXCEPT !.fontName = Str(Estedad)]

\* the children of the request's root
RequestKids ==
  {<<>>, <<Rect(Num(R(1)), Num(R(1)))>>, <<Image(Num(R(1)), NoValue)>>,
   <<GoodFont>>, <<BadFontName>>, <<EmptyFontName>>, <<NumericFontName>>,
   <<BadFontWeight>>, <<Rect(NoValue, NoValue), BadFontName>>,
   <<Image(NoValue, NoValue), GoodFont>>,
   <<Rect(FillStr, FillStr),
     Container("VERTICAL", NoValue, NoValue, <<BadFontName>>)>>,
   <<GoodFont, Container("", NoValue, NoValue, <<Image(NoValue, NoValue)>>)>>}

RequestRootDims == {<<Num(R(3)), Num(R(2))>>, <<Num(R(0)), Num(R(2))>>,
                    <<HalfStr, Num(R(2))>>, <<Num(R(3)), NoValue>>,
                    <<FillStr, AutoStr>>}

RequestScenes ==
  {Container(mode, size[1], size[2], kids) :
     mode \in {"", "HORIZONTAL"}, size \in RequestRootDims,
     kids \in RequestKids}
  \cup {[GoodFont EXCEPT !.width = Num(R(2)), !.height = Num(R(2))],
        [BadFontName EXCEPT !.width = Num(R(2)), !.height = Num(R(2))],
        [BadFontName EXCEPT !.width = Num(R(2))]}

Overrides == {NoValue, Num(R(2)), Num(R(0)), Str(<<"2">>), Str(<<"x">>)}

\* request bodies: the scene with an override of its height and either
\* destination and format; the scene with an override of its width; and no
\* scene at all
BodiesWithHeight ==
  [hasScene : {TRUE}, scene : RequestScenes, width : {NoValue},
   height : Overrides, useUploadThing : BOOLEAN, outputFormat : {"", "pdf"}]
BodiesWithWidth ==
  [hasScene : {TRUE}, scene : RequestScenes, width : Overrides \ {NoValue},
   height : {NoValue}, useUploadThing : {FALSE}, outputFormat : {""}]
BodiesWithoutScene ==
  [hasScene : {FALSE}, scene : {Node0}, width : Overrides, height : {NoValue},
   useUploadThing : {FALSE}, outputFormat : {""}]

\* the server's surroundings: the measuring canvas, whether the font files
\* can be registered, and which upload destinations are configured
Worlds ==
  {[ctx |-> Surface([c \in {"a", "b", " ", "\n", "alef", "alefIsolated"}
                       |-> R(1)]),
    fontFilesOk |-> f, liaraConfigured |-> l, tokenSet |-> t] :
     f \in BOOLEAN, l \in BOOLEAN, t \in BOOLEAN}

Init ==
  /\ pc = "request"
  /\ \/ input \in BodiesWithHeight
     \/ input \in BodiesWithWidth
     \/ input \in BodiesWithoutScene
  /\ output = ""
  /\ world \in Worlds
  /\ sceneConfig = Node0
  /\ autoNodeCounter = 0
  /\ normalized = NoNode
  /\ rootLayout = NoLayout
  /\ thrown = NoError
  /\ events = <<>>
  /\ status = 0

Next ==
  \/ Receive
  \/ Normalize
  \/ CheckRoot
  \/ LayoutRoot
  \/ Finalize
  \/ RenderStart
  \/ Paint
  \/ Encode
  \/ UploadToLiara
  \/ UploadToUploadThing
  \/ RespondError

Spec == Init /\ [][Next]_vars

\* C2: a request that ends in a SceneValidationError has made no paint call
\* and no upload attempt before the error, and is answered 400.
C2_ValidationErrorIsClean ==
  thrown.name = "SceneValidationError" =>
    /\ \A i \in 1..Len(events) : events[i] \notin PaintEvents \cup UploadEvents
    /\ pc \in {"thrown", "responded"}
    /\ pc = "responded" => status = 400

\* a font refused deep in the tree: the layout had begun, nothing was
\* painted or uploaded, and the answer is 400
C2_Witness ==
  /\ pc = "responded"
  /\ thrown.name = "SceneValidationError"
  /\ status = 400
  /\ events = <<"normalize", "layoutNode">>
  /\ Len(normalized.children) = 2

\* the places of an event in the log of calls
Places(e) == {i \in 1..Len(events) : events[i] = e}

\* the upload phase has ended: uploadWithFallback returned or threw
Uploaded ==
  pc = "responded" /\ \E i \in 1..Len(events) : events[i] \in {"encode", "createPdf"}

\* C16: uploadWithFallback tries Liara first, and only without
\* forceUploadThing and with the Liara configuration present; it tries
\* UploadThing exactly when Liara gave no URL; it returns the URL of the
\* first destination that succeeds; and it throws UploadError only after a
\* failed UploadThing attempt.
C16_UploadOrder ==
  /\ Cardinality(Places("uploadToLiara")) <= 1
  /\ Cardinality(Places("uploadToUploadThing")) <= 1
  /\ Places("uploadToLiara") # {} =>
       ~input.useUploadThing /\ world.liaraConfigured
  /\ \A i \in Places("uploadToLiara"), j \in Places("uploadToUploadThing") :
       i < j
  /\ pc = "fallback" =>
       Places("uploadToLiara") # {} /\ Places("uploadToUploadThing") = {}
  /\ Uploaded =>
       /\ (~input.useUploadThing /\ world.liaraConfigured)
            <=> Places("uploadToLiara") # {}
       /\ (status = 200 /\ output = "liaraUrl")
            <=> Places("uploadToUploadThing") = {}
       /\ status = 200 =>
            output = IF Places("uploadToUploadThing") = {}
                     THEN "liaraUrl" ELSE "uploadThingUrl"
       /\ status # 200 =>
            /\ status = 500
            /\ output = "UploadError"
            /\ events[Len(events)] = "uploadToUploadThing"

\* Liara failed and UploadThing gave the URL
C16_Witness ==
  /\ Uploaded
  /\ status = 200
  /\ output = "uploadThingUrl"
  /\ Places("uploadToLiara") # {}
  /\ Places("uploadToUploadThing") # {}

----------------------------------------------------------------------------
(* Specification of the dimension resolver alone *)

ResolveInputs ==
  [spec : DimSpecs, available : OptLengths, allowFill : BOOLEAN]

InitResolve ==
  /\ pc = "start"
  /\ input \in ResolveInputs
  /\ output = Undef
  /\ EngineIdle

Resolve ==
  /\ pc = "start"
  /\ output' = resolveDimensionValue(input.spec, input.available, input.allowFill)
  /\ pc' = "done"
  /\ UNCHANGED <<input, engineVars>>

NextResolve == Resolve

SpecResolve == InitResolve /\ [][NextResolve]_vars

\* C5: resolveDimensionValue returns v for FIXED(v) whatever available and
\* allowFill are; available*p for PERCENT(p) when available is determined and
\* undetermined otherwise; available for FILL when allowFill holds and
\* available is determined, undetermined otherwise; undetermined for AUTO.
C5_ResolveTable ==
  pc = "done" =>
    LET s == input.spec
        a == input.available
    IN  /\ s.mode = "FIXED" => output = s.value
        /\ s.mode = "PERCENT" /\ IsDef(a) =>
             output = Norm(a[1] * s.value[1], a[2] * s.value[2])
        /\ s.mode = "PERCENT" /\ ~IsDef(a) => ~IsDef(output)
        /\ s.mode = "FILL" /\ input.allowFill /\ IsDef(a) => output = a
        /\ s.mode = "FILL" /\ ~(input.allowFill /\ IsDef(a)) => ~IsDef(output)
        /\ s.mode = "AUTO" => ~IsDef(output)

\* a FILL spec met with a determined available width but fill not allowed
C5_Witness ==
  /\ pc = "done"
  /\ input.spec.mode = "FILL"
  /\ ~input.allowFill
  /\ IsDef(input.available)
  /\ ~IsDef(output)

----------------------------------------------------------------------------
(* Specification of the text wrapper alone *)

MaxLen == 5

Letters == {"a", "b", " "}
Advances == {R(1), R(2)}
Contexts == {Surface(adv) : adv \in [Letters \cup {"\n"} -> Advances]}
\* wrapping never measures a newline: its advance is held fixed
WrapContexts == {c \in Contexts : c.adv["\n"] = R(1)}
Spacings == {R(-1), R(0)}

WrapInputs ==
  [paragraph : SeqsUpTo(Letters, MaxLen),
   ctx : WrapContexts,
   maxWidth : {R(n) : n \in 1..MaxVal},
   letterSpacing : Spacings,
   direction : {"LTR", "RTL"}]

InitWrap ==
  /\ pc = "start"
  /\ input \in WrapInputs
  /\ output = <<>>
  /\ EngineIdle

WrapRTL ==
  /\ pc = "start"
  /\ input.direction = "RTL"
  /\ output' = wrapTextRTL(input.ctx, input.paragraph, input.maxWidth,
                           input.letterSpacing)
  /\ pc' = "done"
  /\ UNCHANGED <<input, engineVars>>

WrapLTR ==
  /\ pc = "start"
  /\ input.direction = "LTR"
  /\ output' = wrapTextLTR(input.ctx, input.paragraph, input.maxWidth,
                           input.letterSpacing)
  /\ pc' = "done"
  /\ UNCHANGED <<input, engineVars>>

NextWrap == WrapRTL \/ WrapLTR

SpecWrap == InitWrap /\ [][NextWrap]_vars

\* C10: for any paragraph without a newline, any maxWidth > 0 and any advance
\* function, joining the wrapped lines with single spaces gives back the
\* paragraph, letter for letter.
C10_RoundTrip ==
  pc = "done" => Join(output, " ") = input.paragraph

----------------------------------------------------------------------------
(* Specification of two runs of the layout engine on one normalized tree,
   sharing one measuring surface *)

\* a TEXT child of font size s
SizedText(t, w, s) == [Text(t, w, NoValue) EXCEPT !.fontSize = s]

TwiceKids ==
  {SizedText(t, w, s) :
     t \in {<<"a">>, <<"a", " ", "b">>}, w \in {NoValue, FillStr, Num(R(2))},
     s \in {Undef, R(1), R(2)}}

TwiceScenes ==
  {Container(mode, Num(R(3)), Num(R(3)), <<k1, k2>>) :
     mode \in {"", "horizontal", "vertical"}, k1 \in TwiceKids,
     k2 \in TwiceKids}

\* the fonts whose letters a surface may draw wide
TwiceFonts ==
  {CanvasFont, buildFontStack("Medium", R(1)), buildFontStack("Medium", R(2))}

\* the fonts the TEXT nodes of a tree set on the surface (line 350 runs for
\* each TEXT node whose font resolves)
RECURSIVE FontsSetIn(_, _)
FontsSetIn(node, env) ==
  LET fontResolution == resolveFontRequest(env, node.fontName, node.fontWeight)
      fontSize == IF IsDef(node.fontSize) /\ RGt(node.fontSize, Zero)
                  THEN node.fontSize ELSE R(DEFAULT_FONT_SIZE)
  IN  IF node.type = "TEXT"
      THEN IF fontResolution.ok
           THEN {buildFontStack(fontResolution.fontWeight, fontSize)}
           ELSE {}
      ELSE UNION {FontsSetIn(node.children[i], env) :
                    i \in 1..Len(node.children)}

\* The font the surface holds when a run returns: that of the TEXT node laid
\* out last.  Which one that is depends on the order of the passes; every
\* TEXT node of the tree is allowed here, and the font held before when the
\* tree sets none.
FontAfterRun(node, env) ==
  IF FontsSetIn(node, env) = {} THEN {env.ctx.font} ELSE FontsSetIn(node, env)

InitTwice ==
  /\ pc = "first"
  /\ \E scene \in TwiceScenes :
       /\ normalized = normalizeSceneNode(scene, "root", 0).node
       /\ input = [tree |-> normalizeSceneNode(scene, "root", 0).node,
                   constraints |-> createConstraints(R(3), R(3), TRUE)]
  /\ \E wide \in SUBSET TwiceFonts :
       world = [UnitEnv EXCEPT !.ctx.wide = wide]
  /\ output = <<>>
  /\ sceneConfig = Node0
  /\ autoNodeCounter = 0
  /\ rootLayout = NoLayout
  /\ thrown = NoError
  /\ events = <<>>
  /\ status = 0

\* layoutNode and assignAbsolutePosition, as computeSceneLayout runs them on
\* a tree; the layout code assigns to fields of layout results only, never
\* to a field of a node, so the tree is as it was
RunOn(next) ==
  /\ output' = Append(output,
                 assignAbsolutePosition(
                   layoutNode(normalized, world, input.constraints),
                   Zero, Zero))
  /\ \E font \in FontAfterRun(normalized, world) :
       world' = [world EXCEPT !.ctx.font = font]
  /\ pc' = next
  /\ UNCHANGED <<input, sceneConfig, autoNodeCounter, normalized, rootLayout,
                 thrown, events, status>>

FirstRun == pc = "first" /\ RunOn("second")

SecondRun == pc = "second" /\ RunOn("done")

NextTwice == FirstRun \/ SecondRun

SpecTwice == InitTwice /\ [][NextTwice]_vars

\* C11: two runs of the layout engine on the same normalized tree, with the
\* same constraints and the same measuring surface, give the same Layout
\* Result tree (sizes, local and absolute positions of every node), and the
\* runs leave the normalized tree as it was.
C11_LayoutIsRepeatable ==
  /\ pc = "done" => output[1] = output[2]
  /\ normalized = input.tree

\* both runs done on a surface whose font changed between them and on which
\* the fonts differ in width, the first child sized by its measured text
C11_Witness ==
  /\ pc = "done"
  /\ world.ctx.font # CanvasFont
  /\ world.ctx.font \in world.ctx.wide
  /\ CanvasFont \notin world.ctx.wide
  /\ output[1].err = ""
  /\ output[1].children[1].node.widthSpec = AUTO_DIMENSION
  /\ output[1].children[1].width = R(2)

----------------------------------------------------------------------------
(* The paint walker on a drawing surface (scene/render.ts) *)

\* The surface as paintLayoutNode uses it: the alpha and the clip regions in
\* effect, the stack of saved states, the calls made so far that draw or
\* load an image (each with the alpha it was made under), and err # "" once
\* an exception left the walker.
NewSurface(alpha, stack) ==
  [alpha |-> alpha, clip |-> <<>>, stack |-> stack, draws |-> <<>>, err |-> ""]

\* ctx.save()
Save(ctx) ==
  [ctx EXCEPT !.stack = Append(@, [alpha |-> ctx.alpha, clip |-> ctx.clip])]

\* ctx.restore(); on an empty stack the canvas does nothing
Restore(ctx) ==
  IF ctx.stack = <<>> THEN ctx
  ELSE [ctx EXCEPT !.alpha = ctx.stack[Len(ctx.stack)].alpha,
                   !.clip = ctx.stack[Len(ctx.stack)].clip,
                   !.stack = SubSeq(@, 1, Len(@) - 1)]

\* the setter of ctx.globalAlpha keeps the old value when handed one outside
\* 0..1
SetGlobalAlpha(ctx, value) ==
  IF RLe(Zero, value) /\ RLe(value, R(1)) THEN [ctx EXCEPT !.alpha = value]
  ELSE ctx

Draw(ctx, id, what) ==
  [ctx EXCEPT !.draws = Append(@, [id |-> id, what |-> what,
                                   alpha |-> ctx.alpha, clip |-> ctx.clip])]

\* A plausible slip: the node's opacity replaces the alpha in effect.
EnterNode_ownOpacityOnly(ctx, node) == SetGlobalAlpha(Save(ctx), node.opacity)

\* ctx.save(); ctx.globalAlpha *= node.opacity ?? 1
EnterNode(ctx, node) ==
  SetGlobalAlpha(Save(ctx), RMul(ctx.alpha, node.opacity))

\* drawRect() for a RECT or a FRAME
DrawBackground(ctx, layout) ==
  IF (layout.node.type = "RECT" \/ layout.node.type = "FRAME")
     /\ layout.node.backgroundColor # ""
  THEN Draw(ctx, layout.node.id, "background")
  ELSE ctx

\* the lines of a TEXT node, one drawTextWithLetterSpacing each
RECURSIVE DrawLines(_, _, _)
DrawLines(ctx, id, n) ==
  IF n = 0 THEN ctx ELSE DrawLines(Draw(ctx, id, "text"), id, n - 1)

DrawText(ctx, layout) ==
  IF layout.textLayout.present /\ layout.node.type = "TEXT"
  THEN DrawLines(ctx, layout.node.id, Len(layout.textLayout.lines))
  ELSE ctx

\* A plausible slip: a load that fails is skipped and the walk goes on.
DrawImage_skipsFailedLoad(ctx, layout, env) ==
  IF layout.node.imageUrl # "" /\ layout.node.type = "IMAGE"
  THEN IF layout.node.imageUrl \in env.broken
       THEN Draw(ctx, layout.node.id, "load")
       ELSE Draw(Draw(ctx, layout.node.id, "load"), layout.node.id, "image")
  ELSE ctx

\* await loadImage(node.imageUrl); ctx.drawImage(...): the call of loadImage
\* is recorded as "load", and paintLayoutNode goes on only when its promise
\* has settled; the promise rejects for the urls of env.broken, and the
\* rejection leaves paintLayoutNode
DrawImage(ctx, layout, env) ==
  IF layout.node.imageUrl # "" /\ layout.node.type = "IMAGE"
  THEN IF layout.node.imageUrl \in env.broken
       THEN [Draw(ctx, layout.node.id, "load") EXCEPT !.err = "Error"]
       ELSE Draw(Draw(ctx, layout.node.id, "load"), layout.node.id, "image")
  ELSE ctx

\* ctx.save(); the clip path; ctx.clip()
EnterClip(ctx, layout) ==
  [Save(ctx) EXCEPT !.clip = Append(ctx.clip, layout.node.id)]

RECURSIVE paintLayoutNode(_, _, _)

\* for (const child of layout.children) await paintLayoutNode(ctx, child):
\* an exception from a child ends the loop
RECURSIVE PaintChildrenOn(_, _, _, _)
PaintChildrenOn(ctx, children, i, env) ==
  IF i > Len(children) \/ ctx.err # "" THEN ctx
  ELSE PaintChildrenOn(paintLayoutNode(ctx, children[i], env), children,
                       i + 1, env)

\* ctx.restore() after the loop, reached only when no exception passed
RestoreUnlessThrown(ctx) == IF ctx.err # "" THEN ctx ELSE Restore(ctx)

\* lines 891-916, from the surface the node's own drawing left
PaintBelow(ctx, layout, env) ==
  IF ctx.err # "" THEN ctx
  ELSE IF layout.node.clipsContent
  THEN RestoreUnlessThrown(
         PaintChildrenOn(EnterClip(ctx, layout), layout.children, 1, env))
  ELSE PaintChildrenOn(ctx, layout.children, 1, env)

paintLayoutNode(ctx, layout, env) ==
  RestoreUnlessThrown(
    PaintBelow(
      DrawImage(DrawText(DrawBackground(EnterNode(ctx, layout.node), layout),
                         layout),
                layout, env),
      layout, env))

----------------------------------------------------------------------------
(* Specification of paintLayoutNode on a laid out tree *)

Opacities == {Undef, Q(1, 2), Zero, R(2)}

\* a child that draws: a rectangle, an image, or a clipping frame around a
\* rectangle
Painted(node, id, o) ==
  [node EXCEPT !.id = id, !.opacity = o, !.backgroundColor = "#000"]

PaintKids(id) ==
  {Painted(Rect(Num(R(1)), Num(R(1))), id, o) : o \in Opacities}
  \cup {Painted(Text(<<"a", "\n", "a">>, NoValue, NoValue), id, Undef)}
  \cup {Painted([Image(Num(R(1)), Num(R(1))) EXCEPT !.imageUrl = u], id, o) :
          o \in {Undef, Q(1, 2)}, u \in {"u", "v"}}
  \cup {[Painted(Container("", Num(R(2)), Num(R(2)),
                   <<Painted(k, id \o "1", Q(1, 2))>>), id, o)
           EXCEPT !.clipsContent = c] :
          o \in {Undef, Q(1, 2)}, c \in BOOLEAN,
          k \in {Rect(Num(R(1)), Num(R(1))),
                 [Image(Num(R(1)), Num(R(1))) EXCEPT !.imageUrl = "v"]}}

PaintScenes ==
  {[Painted(Container("horizontal", Num(R(3)), Num(R(3)), <<k1, k2>>),
            "r", o) EXCEPT !.clipsContent = c] :
     o \in {Undef, Q(1, 2)}, c \in BOOLEAN, k1 \in PaintKids("a"),
     k2 \in PaintKids("b")}

\* the layout computeSceneLayout returns for a scene
LayoutOf(scene) ==
  assignAbsolutePosition(
    layoutNode(normalizeSceneNode(scene, "root", 0).node, UnitEnv,
               createConstraints(R(3), R(3), TRUE)),
    Zero, Zero)

\* a fresh canvas has alpha 1 and an empty stack; a caller's surface may
\* come with another alpha and with states saved
InitPaint ==
  /\ pc = "painting"
  /\ \E scene \in PaintScenes : rootLayout = LayoutOf(scene)
  /\ \E alpha \in {R(1), Q(1, 2)}, depth \in {0, 1} :
       input = NewSurface(alpha, [i \in 1..depth |->
                                    [alpha |-> R(1), clip |-> <<>>]])
  /\ \E broken \in {{}, {"v"}} :
       world = UnitEnv @@ [broken |-> broken]
  /\ output = input
  /\ sceneConfig = Node0
  /\ autoNodeCounter = 0
  /\ normalized = NoNode
  /\ thrown = NoError
  /\ events = <<>>
  /\ status = 0

\* await paintLayoutNode(ctx, layout), to its return or to its exception
PaintTree ==
  /\ pc = "painting"
  /\ output' = paintLayoutNode(input, rootLayout, world)
  /\ pc' = IF output'.err # "" THEN "thrown" ELSE "painted"
  /\ thrown' = IF output'.err # "" THEN InternalError(output'.err) ELSE thrown
  /\ UNCHANGED <<input, world, sceneConfig, autoNodeCounter, normalized,
                 rootLayout, events, status>>

NextPaint == PaintTree

SpecPaint == InitPaint /\ [][NextPaint]_vars

\* the product of the opacities from the root of a layout down to the node
\* of an id (ids of the painted scenes are unique); Undef when the id is not
\* in the tree
RECURSIVE OpacityTo(_, _)
OpacityTo(layout, id) ==
  IF layout.node.id = id THEN layout.node.opacity
  ELSE LET below == {OpacityTo(layout.children[i], id) :
                       i \in 1..Len(layout.children)} \ {Undef}
       IN  IF below = {} THEN Undef
           ELSE RMul(layout.node.opacity, CHOOSE o \in below : TRUE)

\* C12: whatever paintLayoutNode draws for a node (background, text, image)
\* is drawn under the surface's initial alpha times the opacities of the node
\* and of all its ancestors, so the opacity of no node outside that chain
\* (an earlier sibling, a cousin) enters.
C12_AlphaIsProduct ==
  pc # "painting" =>
    \A i \in 1..Len(output.draws) :
      output.draws[i].alpha
        = RMul(input.alpha, OpacityTo(rootLayout, output.draws[i].id))

\* a grandchild of opacity 1/2 under a parent of 1/2 drawn at a quarter, and
\* after it a sibling of the parent drawn at its own opacity 1
C12_Witness ==
  /\ pc = "painted"
  /\ input.alpha = R(1)
  /\ rootLayout.node.opacity = R(1)
  /\ \E i, j \in 1..Len(output.draws) :
       /\ i < j
       /\ output.draws[i].id = "a1"
       /\ output.draws[i].alpha = Q(1, 4)
       /\ output.draws[j].id = "b"
       /\ output.draws[j].alpha = R(1)

\* C13: paintLayoutNode leaves the save/restore stack at the depth it had on
\* entry, after a normal return and after an exception alike.
C13_StackBalanced ==
  pc # "painting" => Len(output.stack) = Len(input.stack)

----------------------------------------------------------------------------
(* Specification of normalizeSceneNode alone, on nodes as JSON can carry
   them *)

\* fields of a node that may hold a value of another type than declared
LooseFields ==
  {"id", "type", "layoutMode", "children", "padding", "text",
   "primaryAxisAlign"}

NullEntry == [Node0 EXCEPT !.isNull = TRUE]

LooseKids ==
  {<<>>, <<Rect(NoValue, NoValue)>>, <<NullEntry>>,
   <<Rect(NoValue, NoValue), NullEntry>>,
   <<[Rect(NoValue, NoValue) EXCEPT !.wrongType = {"type"}]>>}

LooseNodes ==
  {[Node0 EXCEPT !.type = t, !.children = kids, !.wrongType = w] :
     t \in {"", "text", "group"}, kids \in LooseKids,
     w \in SUBSET LooseFields}

InitNormalize ==
  /\ pc = "start"
  /\ input \in LooseNodes
  /\ output = [node |-> NoNode, counter |-> 0, err |-> ""]
  /\ EngineIdle

\* normalizeSceneNode(input, "root") from a counter of 0
NormalizeNode ==
  /\ pc = "start"
  /\ output' = normalizeSceneNode(input, "root", 0)
  /\ pc' = "done"
  /\ UNCHANGED <<input, engineVars>>

NextNormalize == NormalizeNode

SpecNormalize == InitNormalize /\ [][NextNormalize]_vars

\* C14: normalizeSceneNode never throws: for every node, fields of a wrong
\* type and null child entries included, it returns a normalized node.
C14_NormalizeIsTotal ==
  pc = "done" => output.err = ""

----------------------------------------------------------------------------
(* Specification of the text direction normalizeSceneNode resolves *)

DirectionLetters ==
  {"a", " ", "alef", "alefIsolated", "hebrewAlef", "syriacAlaph", "thaanaHaa"}

DirectionNodes ==
  {[Node0 EXCEPT !.type = "text", !.text = t, !.textDirection = d] :
     t \in SeqsUpTo(DirectionLetters, MaxVal),
     d \in {"", "RTL", "LTR", "rtl"}}

InitDirection ==
  /\ pc = "start"
  /\ input \in DirectionNodes
  /\ output = [node |-> NoNode, counter |-> 0, err |-> ""]
  /\ EngineIdle

SpecDirection == InitDirection /\ [][NextNormalize]_vars

\* the Unicode blocks Hebrew (U+0590-05FF), Arabic (U+0600-06FF), Syriac
\* (U+0700-074F), Arabic Supplement (U+0750-077F), Thaana (U+0780-07BF),
\* Arabic Extended-A (U+08A0-08FF), Arabic Presentation Forms-A
\* (U+FB50-FDFF) and Arabic Presentation Forms-B (U+FE70-FEFF)
InRtlBlocks(c) ==
  LET p == CodePoint(c)
  IN  \/ (1424 <= p /\ p <= 1535) \/ (1536 <= p /\ p <= 1791)
      \/ (1792 <= p /\ p <= 1871) \/ (1872 <= p /\ p <= 1919)
      \/ (1920 <= p /\ p <= 1983) \/ (2208 <= p /\ p <= 2303)
      \/ (64336 <= p /\ p <= 65023) \/ (65136 <= p /\ p <= 65279)

\* C15: without an explicit textDirection a node's direction is RTL exactly
\* when its text holds a letter of the Hebrew, Arabic (supplements and
\* presentation forms included), Syriac or Thaana blocks, and LTR otherwise;
\* an explicit RTL or LTR is kept.
C15_DirectionDetected ==
  pc = "done" =>
    output.node.textDirection
      = IF input.textDirection \in {"RTL", "LTR"} THEN input.textDirection
        ELSE IF \E i \in 1..Len(input.text) : InRtlBlocks(input.text[i])
        THEN "RTL" ELSE "LTR"

----------------------------------------------------------------------------
(* Specification of computeSceneLayout on auto-layout roots whose children
   fill, take a percentage, or are fixed, on either axis *)

FlowDims == {Num(R(1)), FillStr, HalfStr}

FlowKids ==
  {Rect(w, h) : w \in FlowDims, h \in FlowDims}
  \cup {Rect(NoValue, NoValue),
        [Rect(FillStr, FillStr) EXCEPT !.grow = R(2)],
        [Rect(FillStr, FillStr) EXCEPT !.grow = R(-1)]}
  \cup {Text(<<"a", " ", "b">>, w, NoValue) : w \in FlowDims \cup {NoValue}}

FlowScenes ==
  {[Container(mode, Num(w), Num(h), kids) EXCEPT
      !.padding = pad, !.itemSpacing = sp, !.counterAxisAlign = ca] :
     mode \in Modes, w \in {R(0), R(4)}, h \in {R(3)},
     pad \in {NoPadding, PadAll(R(1))}, sp \in {Undef, R(1)},
     ca \in {"", "STRETCH"}, kids \in SeqsUpTo(FlowKids, 2) \ {<<>>}}

InitFlow ==
  /\ pc = "compute"
  /\ input = "scene"
  /\ output = Undef
  /\ world = UnitEnv
  /\ sceneConfig \in FlowScenes
  /\ autoNodeCounter = 0
  /\ normalized = NoNode
  /\ rootLayout = NoLayout
  /\ thrown = NoError
  /\ events = <<>>
  /\ status = 0

SpecFlow == InitFlow /\ [][NextLayout]_vars

\* the specs of a child along and across its parent's axis
ChildMainSpec(parent, child) ==
  IF parent.layoutMode = "HORIZONTAL" THEN child.widthSpec ELSE child.heightSpec
ChildCrossSpec(parent, child) ==
  IF parent.layoutMode = "HORIZONTAL" THEN child.heightSpec ELSE child.widthSpec

\* the inner size of a container along an axis whose spec is FIXED
InnerOf(spec, padding) == RMax(Zero, RSub(spec.value, padding))

\* the auto-layout containers of the result, each with all its children
AutoLayouts ==
  {l \in AllLayouts(rootLayout) :
     IsAutoLayout(l.node) /\ Len(l.children) = Len(l.node.children)}

\* C17: a flow child whose cross-axis dimension is "fill" gets the
\* container's inner cross-axis size, whatever the counter-axis alignment.
C17_CrossFill ==
  pc = "laidout" =>
    \A l \in AutoLayouts :
      CrossSpec(l.node).mode = "FIXED" =>
        \A i \in FlowIdx(l.node) :
          ChildCrossSpec(l.node, l.node.children[i]).mode = "FILL" =>
            CrossSizeOf(l.children[i], l.node)
              = InnerOf(CrossSpec(l.node), CrossPadding(l.node))

\* C19: a flow child of width PERCENT(p) in an auto-layout container of
\* inner width W is W * p wide, and one of height PERCENT(q) under an inner
\* height H is H * q high.
C19_PercentOfInner ==
  pc = "laidout" =>
    \A l \in AutoLayouts :
      \A i \in FlowIdx(l.node) :
        LET child == l.node.children[i]
            padX == RAdd(l.node.padding.left, l.node.padding.right)
            padY == RAdd(l.node.padding.top, l.node.padding.bottom)
        IN  /\ (l.node.widthSpec.mode = "FIXED"
                  /\ child.widthSpec.mode = "PERCENT") =>
                 l.children[i].width
                   = RMul(InnerOf(l.node.widthSpec, padX), child.widthSpec.value)
            /\ (l.node.heightSpec.mode = "FIXED"
                  /\ child.heightSpec.mode = "PERCENT") =>
                 l.children[i].height
                   = RMul(InnerOf(l.node.heightSpec, padY),
                          child.heightSpec.value)

\* the sum of f over a finite set of indices
RECURSIVE SumAt(_, _)
SumAt(f, S) ==
  IF S = {} THEN Zero
  ELSE LET i == CHOOSE j \in S : TRUE
       IN  RAdd(f[i], SumAt(f, S \ {i}))

\* the flow children of a node that fill its main axis
FillIdx(node) ==
  {i \in FlowIdx(node) : ChildMainSpec(node, node.children[i]).mode = "FILL"}

\* C20: in an auto-layout container of inner main size I >= 0, each flow
\* child whose main spec is FILL has main size
\* max(0, I - sizes of the other flow children - itemSpacing * (n - 1))
\* * w / (sum of w over the fill children), w = grow if grow > 0 else 1.
C20_FillShares ==
  pc = "laidout" =>
    \A l \in AutoLayouts :
      MainSpec(l.node).mode = "FIXED" =>
        LET n == Cardinality(FlowIdx(l.node))
            inner == InnerOf(MainSpec(l.node), MainPadding(l.node))
            sizes == [i \in 1..Len(l.children) |-> MainSize(l.children[i], l.node)]
            weights == [i \in 1..Len(l.children) |->
                          IF RGt(l.node.children[i].grow, Zero)
                          THEN l.node.children[i].grow ELSE R(1)]
            others == SumAt(sizes, FlowIdx(l.node) \ FillIdx(l.node))
            remaining == RMax(Zero, RSub(RSub(inner, others),
                                         RMul(l.node.itemSpacing, R(n - 1))))
        IN  \A i \in FillIdx(l.node) :
              sizes[i] = RDiv(RMul(remaining, weights[i]),
                              SumAt(weights, FillIdx(l.node)))

----------------------------------------------------------------------------
(* Pagination (scene/pagination.ts) *)

\* A JavaScript number that need not be finite: calculateMaxLines divides
\* by a line height that may be 0.
Finite(n) == [kind |-> "finite", v |-> n]
Infinity == [kind |-> "Infinity", v |-> 0]
NegInfinity == [kind |-> "-Infinity", v |-> 0]
NaN == [kind |-> "NaN", v |-> 0]

\* Math.floor of a fraction
Floor(x) == x[1] \div x[2]

\* Math.floor(availableHeight / lineHeight), lineHeightMultiplier = 1.5
calculateMaxLines(height, padding, fontSize) ==
  LET availableHeight == RSub(height, RMul(R(2), padding))
      lineHeight == RMul(fontSize, Q(3, 2))
  IN  IF RIsZero(lineHeight)
      THEN IF RGt(availableHeight, Zero) THEN Infinity
           ELSE IF RLt(availableHeight, Zero) THEN NegInfinity
           ELSE NaN
      ELSE Finite(Floor(RDiv(availableHeight, lineHeight)))

\* maxLinesPerPage < 1, the test of the /image handler
BelowOne(maxLines) ==
  CASE maxLines.kind = "finite" -> maxLines.v < 1
    [] maxLines.kind = "-Infinity" -> TRUE
    [] OTHER -> FALSE

\* A plausible slip: a page is closed one line late.
PageIsFull_strict(currentPage, maxLines) ==
  CASE maxLines.kind = "finite" -> Len(currentPage) > maxLines.v
    [] maxLines.kind = "-Infinity" -> TRUE
    [] OTHER -> FALSE

\* currentPage.length >= maxLines
PageIsFull(currentPage, maxLines) ==
  CASE maxLines.kind = "finite" -> Len(currentPage) >= maxLines.v
    [] maxLines.kind = "-Infinity" -> TRUE
    [] OTHER -> FALSE

\* the loop over the wrapped lines and the push of the last page
RECURSIVE PaginateLoop(_, _, _, _)
PaginateLoop(allLines, pages, currentPage, maxLines) ==
  IF allLines = <<>>
  THEN IF Len(currentPage) > 0 THEN Append(pages, currentPage) ELSE pages
  ELSE IF PageIsFull(currentPage, maxLines)
  THEN PaginateLoop(Tail(allLines), Append(pages, currentPage),
                    <<Head(allLines)>>, maxLines)
  ELSE PaginateLoop(Tail(allLines), pages,
                    Append(currentPage, Head(allLines)), maxLines)

paginateText(ctx, text, maxWidth, maxLines, letterSpacing) ==
  PaginateLoop(wrapTextRTL(ctx, text, maxWidth, letterSpacing), <<>>, <<>>,
               maxLines)

----------------------------------------------------------------------------
(* Specification of the pagination of POST /image: the lines per page are
   calculated, a count below 1 is refused, the text is paginated *)

PageTexts == SeqsUpTo({"a", " "}, MaxLen)

\* height, padding and font size as the handler parsed them; the font size
\* is "0" parsed to 0 in one of them
PageSizes ==
  [height : {R(3), R(6), R(9)}, padding : {Zero, R(1)},
   fontSize : {Zero, R(2), R(-2)}]

InitPages ==
  /\ pc = "start"
  /\ input \in [text : PageTexts, maxWidth : {R(1), R(3)}, size : PageSizes]
  /\ output = [maxLines |-> NaN, pages |-> <<>>]
  /\ world = UnitEnv
  /\ sceneConfig = Node0
  /\ autoNodeCounter = 0
  /\ normalized = NoNode
  /\ rootLayout = NoLayout
  /\ thrown = NoError
  /\ events = <<>>
  /\ status = 0

\* calculateMaxLines and the handler's test of its result
CalculateMaxLines ==
  /\ pc = "start"
  /\ LET maxLinesPerPage == calculateMaxLines(input.size.height,
                              input.size.padding, input.size.fontSize)
     IN  /\ output' = [output EXCEPT !.maxLines = maxLinesPerPage]
         /\ IF BelowOne(maxLinesPerPage)
            THEN pc' = "responded" /\ status' = 400
            ELSE pc' = "paginate" /\ status' = status
  /\ UNCHANGED <<input, world, sceneConfig, autoNodeCounter, normalized,
                 rootLayout, thrown, events>>

\* pages = paginateText(tempCtx, text, maxTextWidth, maxLinesPerPage, ...)
Paginate ==
  /\ pc = "paginate"
  /\ output' = [output EXCEPT !.pages =
                  paginateText(world.ctx, input.text, input.maxWidth,
                               output.maxLines, Zero)]
  /\ pc' = "paginated"
  /\ UNCHANGED <<input, world, sceneConfig, autoNodeCounter, normalized,
                 rootLayout, thrown, events, status>>

NextPages == CalculateMaxLines \/ Paginate

SpecPages == InitPages /\ [][NextPages]_vars

\* the pages laid end to end
RECURSIVE Flatten(_)
Flatten(pages) ==
  IF pages = <<>> THEN <<>> ELSE Head(pages) \o Flatten(Tail(pages))

WrappedLines == wrapTextRTL(world.ctx, input.text, input.maxWidth, Zero)

\* the pages are the wrapped lines in order, cut after every m lines
PagesCutEvery(m) ==
  LET pages == output.pages
      n == Len(WrappedLines)
  IN  /\ Flatten(pages) = WrappedLines
      /\ \A p \in 1..Len(pages) : 1 <= Len(pages[p]) /\ Len(pages[p]) <= m
      /\ \A p \in 1..(Len(pages) - 1) : Len(pages[p]) = m
      /\ Len(pages) = (n + m - 1) \div m

\* C18 as stated: for maxLines >= 1 the number of pages is
\* ceil(lineCount / maxLines); lineCount / Infinity is 0.
C18_PagesAsStated ==
  pc = "paginated" =>
    IF output.maxLines.kind = "finite" THEN PagesCutEvery(output.maxLines.v)
    ELSE Len(output.pages) = 0

\* C18: for a finite maxLines >= 1 the pages, laid end to end, are the
\* wrapped lines, every page has 1 to maxLines lines, every page but the
\* last has maxLines, and there are ceil(lineCount / maxLines) pages; for
\* maxLines = Infinity all the lines, if any, are on one page.
C18_Pages ==
  pc = "paginated" =>
    /\ output.maxLines.kind \in {"finite", "Infinity"}
    /\ output.maxLines.kind = "finite" =>
         output.maxLines.v >= 1 /\ PagesCutEvery(output.maxLines.v)
    /\ output.maxLines.kind = "Infinity" =>
         output.pages = IF WrappedLines = <<>> THEN <<>> ELSE <<WrappedLines>>

\* three lines at two per page: a full page and a page of one line
C18_Witness ==
  /\ pc = "paginated"
  /\ output.maxLines = Finite(2)
  /\ Len(WrappedLines) = 3
  /\ output.pages = <<<<WrappedLines[1], WrappedLines[2]>>, <<WrappedLines[3]>>>>

----------------------------------------------------------------------------
(* Specification of computeSceneLayout on SPACE_BETWEEN containers: a root of
   fixed size, or a container of no declared size inside a NONE-mode root *)

GapKids ==
  {Rect(Num(R(0)), Num(R(1))), Rect(Num(R(1)), Num(R(0))),
   Rect(Num(R(1)), Num(R(1))), Rect(Num(R(2)), Num(R(2))),
   [Rect(Num(R(1)), Num(R(1))) EXCEPT !.id = "a"],
   [Rect(Num(R(2)), Num(R(2))) EXCEPT !.id = "a"]}

GapSpacings == {Undef, R(1), R(2)}

GapRoots ==
  {[Container(mode, size[1], size[2], kids) EXCEPT
      !.padding = pad, !.itemSpacing = sp, !.primaryAxisAlign = "SPACE_BETWEEN"] :
     mode \in Modes, size \in AlignSizes, pad \in {NoPadding, PadAll(R(1))},
     sp \in GapSpacings, kids \in SeqsUpTo(GapKids, 3) \ {<<>>}}

GapNested ==
  {Container("", Num(R(3)), Num(R(3)),
     <<[Container(mode, NoValue, NoValue, kids) EXCEPT
          !.padding = pad, !.itemSpacing = sp,
          !.primaryAxisAlign = "SPACE_BETWEEN"]>>) :
     mode \in Modes, pad \in Paddings, sp \in GapSpacings,
     kids \in SeqsUpTo(GapKids, 2) \ {<<>>}}

InitGap ==
  /\ pc = "compute"
  /\ input = "scene"
  /\ output = Undef
  /\ world = UnitEnv
  /\ \/ sceneConfig \in GapRoots
     \/ sceneConfig \in GapNested
  /\ autoNodeCounter = 0
  /\ normalized = NoNode
  /\ rootLayout = NoLayout
  /\ thrown = NoError
  /\ events = <<>>
  /\ status = 0

SpecGap == InitGap /\ [][NextLayout]_vars

\* the SPACE_BETWEEN containers of the result
SpaceBetweens ==
  {l \in AutoLayouts : l.node.primaryAxisAlign = "SPACE_BETWEEN"}

\* the flow children of a node, as indices in order
FlowSeq(node) ==
  SelectIdx(Len(node.children), LAMBDA i : ~node.children[i].absolute)

\* no other flow child of the node has the id of child i
IdIsOwn(node, i) ==
  \A j \in FlowIdx(node) : j # i => node.children[j].id # node.children[i].id

\* the inner main size of a laid out container, from its resolved size
InnerMain(l) == RMax(Zero, RSub(MainSize(l, l.node), MainPadding(l.node)))

\* the gap between flow child k and the next one, as the result places them
GapAfter(l, k) ==
  LET seq == FlowSeq(l.node)
      this == l.children[seq[k]]
      next == l.children[seq[k + 1]]
  IN  RSub(MainOffset(next, l.node),
           RAdd(MainOffset(this, l.node), MainSize(this, l.node)))

\* the children's total main size, in the result
TotalMain(l) ==
  SumAt([i \in 1..Len(l.children) |-> MainSize(l.children[i], l.node)],
        FlowIdx(l.node))

\* C21 as stated: under SPACE_BETWEEN the gap between consecutive flow
\* children is leftover / (N - 1) when N >= 2 and leftover > 0, and
\* itemSpacing when leftover <= 0 (leftover = inner main size - the children's
\* total main size).
C21_GapAsStated ==
  pc = "laidout" =>
    \A l \in SpaceBetweens :
      (\A i \in FlowIdx(l.node) : IdIsOwn(l.node, i)) =>
        LET N == Len(FlowSeq(l.node))
            leftover == RSub(InnerMain(l), TotalMain(l))
        IN  \A k \in 1..(N - 1) :
              GapAfter(l, k) = IF RGt(leftover, Zero)
                               THEN RDiv(leftover, R(N - 1))
                               ELSE l.node.itemSpacing

\* C21, amended: under SPACE_BETWEEN with N >= 2 flow children the gap
\* between consecutive flow children is leftover / (N - 1) when leftover > 0
\* and 0 when leftover <= 0, whatever itemSpacing is; leftover is the inner
\* main size minus the sum T of the main sizes measured in the sizing passes,
\* which is the children's total main size when their ids differ.  For the
\* root, whose constraints are its own fixed sizes, T is computed as the
\* passes compute it, and the gap is read between children whose ids are
\* their own.
C21_Gap ==
  pc = "laidout" =>
    /\ \A l \in SpaceBetweens :
         (\A i \in FlowIdx(l.node) : IdIsOwn(l.node, i)) =>
           LET N == Len(FlowSeq(l.node))
               leftover == RSub(InnerMain(l), TotalMain(l))
           IN  \A k \in 1..(N - 1) :
                 GapAfter(l, k) = IF RGt(leftover, Zero)
                                  THEN RDiv(leftover, R(N - 1))
                                  ELSE Zero
    /\ (rootLayout \in SpaceBetweens) =>
         LET seq == FlowSeq(normalized)
             N == Len(seq)
             T == FlowPass(normalized, world,
                    createConstraints(normalized.widthSpec.value,
                                      normalized.heightSpec.value, TRUE)).totalAxis
             leftover == RSub(InnerMain(rootLayout), T)
         IN  \A k \in 1..(N - 1) :
               (IdIsOwn(normalized, seq[k]) /\ IdIsOwn(normalized, seq[k + 1])) =>
                 GapAfter(rootLayout, k) = IF RGt(leftover, Zero)
                                           THEN RDiv(leftover, R(N - 1))
                                           ELSE Zero

\* two children that do not fit under an item spacing of 2 get no gap
C21_Witness ==
  /\ pc = "laidout"
  /\ rootLayout \in SpaceBetweens
  /\ \A i \in FlowIdx(normalized) : IdIsOwn(normalized, i)
  /\ Len(FlowSeq(normalized)) = 2
  /\ normalized.itemSpacing = R(2)
  /\ RLt(RSub(InnerMain(rootLayout), TotalMain(rootLayout)), Zero)
  /\ GapAfter(rootLayout, 1) = Zero

\* three children that leave one unit over get half a unit between them
C21_LeftoverShared ==
  /\ pc = "laidout"
  /\ rootLayout \in SpaceBetweens
  /\ \A i \in FlowIdx(normalized) : IdIsOwn(normalized, i)
  /\ Len(FlowSeq(normalized)) = 3
  /\ RSub(InnerMain(rootLayout), TotalMain(rootLayout)) = R(1)
  /\ GapAfter(rootLayout, 1) = Q(1, 2)
  /\ GapAfter(rootLayout, 2) = Q(1, 2)

----------------------------------------------------------------------------
(* NONE-mode containers *)

\* the NONE-mode containers of the result whose width and height are fixed
FixedAbsoluteContainers ==
  {l \in AllLayouts(rootLayout) :
     /\ IsContainer(l.node) /\ l.node.layoutMode = "NONE"
     /\ l.node.widthSpec.mode = "FIXED" /\ l.node.heightSpec.mode = "FIXED"
     /\ Len(l.children) = Len(l.node.children)}

\* the size a child's spec asks for inside an available size, when it is
\* FILL or PERCENT
AskedOf(spec, inner, actual) ==
  IF spec.mode = "FILL" THEN inner
  ELSE IF spec.mode = "PERCENT" THEN RMul(inner, spec.value)
  ELSE actual

\* C22: in a NONE-mode container of determinable width and height a child of
\* width FILL is as wide as the inner box and one of width PERCENT(p) is p
\* times as wide (the same for the height), and every child is placed at
\* (padding.left + x, padding.top + y).
C22_AbsoluteChildren ==
  pc = "laidout" =>
    \A l \in FixedAbsoluteContainers :
      LET innerW == InnerOf(l.node.widthSpec,
                            RAdd(l.node.padding.left, l.node.padding.right))
          innerH == InnerOf(l.node.heightSpec,
                            RAdd(l.node.padding.top, l.node.padding.bottom))
      IN  \A i \in 1..Len(l.children) :
            LET child == l.node.children[i]
                c == l.children[i]
            IN  /\ c.width = AskedOf(child.widthSpec, innerW, c.width)
                /\ c.height = AskedOf(child.heightSpec, innerH, c.height)
                /\ c.localX = RAdd(l.node.padding.left, child.x)
                /\ c.localY = RAdd(l.node.padding.top, child.y)

----------------------------------------------------------------------------
(* Specification of computeSceneLayout on a scene with and without one
   absolute child in an auto-layout container *)

Absolute(node, id, x, y) ==
  [node EXCEPT !.absolute = TRUE, !.id = id, !.x = x, !.y = y]

\* the absolute child that is added: with an id of its own or none, of any
\* size, and possibly with a child that is given a synthetic id
ExtraKids ==
  {Absolute(Rect(w, h), id, R(1), Undef) :
     w \in {Num(R(2)), FillStr}, h \in {Num(R(1)), HalfStr}, id \in {"", "x"}}
  \cup {Absolute(Text(<<"a", " ", "b">>, NoValue, NoValue), "x", R(1), R(1)),
        Absolute(Container("", NoValue, NoValue, <<Rect(NoValue, NoValue)>>),
                 "x", Undef, R(1))}

\* Flow children.  The last one carries, as the id its caller gave it, the
\* id minted for a child without id that stands third in the container "c"
\* when no id was minted before it.
SiblingKids ==
  {Rect(Num(R(1)), Num(R(1))), Rect(Num(R(2)), Num(R(2))),
   Rect(FillStr, FillStr),
   Text(<<"a", " ", "b">>, NoValue, NoValue),
   [Rect(Num(R(1)), Num(R(2))) EXCEPT !.id = "a"],
   [Rect(Num(R(1)), Num(R(2))) EXCEPT !.id = "c-2-node-1"]}

\* the sequence with one more element at index at
InsertAt(seq, at, e) ==
  SubSeq(seq, 1, at - 1) \o <<e>> \o SubSeq(seq, at, Len(seq))

\* a root "r" around an auto-layout container "c" with the children kids
AroundContainer(rootMode, mode, size, pad, sp, kids) ==
  [Container(rootMode, Num(R(3)), Num(R(3)),
     <<[Container(mode, size, size, kids) EXCEPT
          !.id = "c", !.padding = pad, !.itemSpacing = sp]>>)
     EXCEPT !.id = "r"]

InitAbsolute ==
  /\ pc = "with"
  /\ \E rootMode \in {"", "horizontal"}, mode \in Modes,
        size \in {NoValue, Num(R(3))}, pad \in {NoPadding, PadAll(R(1))},
        sp \in {Undef, R(1)}, kids \in SeqsUpTo(SiblingKids, 2) \ {<<>>},
        extra \in ExtraKids :
       \E at \in 1..(Len(kids) + 1) :
         /\ sceneConfig = AroundContainer(rootMode, mode, size, pad, sp,
                                          InsertAt(kids, at, extra))
         /\ input = [at |-> at,
                     without |-> AroundContainer(rootMode, mode, size, pad, sp,
                                                 kids)]
  /\ output = <<>>
  /\ world = UnitEnv
  /\ autoNodeCounter = 0
  /\ normalized = NoNode
  /\ rootLayout = NoLayout
  /\ thrown = NoError
  /\ events = <<>>
  /\ status = 0

\* computeSceneLayout on the scene that has the absolute child
LayoutWith ==
  /\ pc = "with"
  /\ output' = Append(output, LayoutOf(sceneConfig))
  /\ pc' = "without"
  /\ UNCHANGED <<input, world, sceneConfig, autoNodeCounter, normalized,
                 rootLayout, thrown, events, status>>

\* computeSceneLayout on the scene that lacks it
LayoutWithout ==
  /\ pc = "without"
  /\ output' = Append(output, LayoutOf(input.without))
  /\ pc' = "done"
  /\ UNCHANGED <<input, world, sceneConfig, autoNodeCounter, normalized,
                 rootLayout, thrown, events, status>>

NextAbsolute == LayoutWith \/ LayoutWithout

SpecAbsolute == InitAbsolute /\ [][NextAbsolute]_vars

\* the size and the position of a Layout Result
Box(l) ==
  [width |-> l.width, height |-> l.height, localX |-> l.localX,
   localY |-> l.localY, absX |-> l.absX, absY |-> l.absY]

\* the index in the scene with the absolute child of the child that is the
\* j-th without it
ShiftedBy(at, j) == IF j < at THEN j ELSE j + 1

\* the absolute child's id differs from the id of each of its siblings
ExtraIdIsOwn(with, at) ==
  \A i \in 1..Len(with.node.children) :
    i # at => with.node.children[i].id # with.node.children[at].id

\* C23: an absolute child of an auto-layout container, its id distinct from
\* its siblings' ids, changes neither the size nor the position of a flow
\* sibling nor the container's size, and is itself placed at
\* (padding.left + x, padding.top + y).
C23_AbsoluteOutOfFlow ==
  (pc = "done" /\ output[1].err = "" /\ output[2].err = "") =>
    LET with == output[1].children[1]
        without == output[2].children[1]
        at == input.at
    IN  ExtraIdIsOwn(with, at) =>
          /\ with.width = without.width
          /\ with.height = without.height
          /\ \A j \in 1..Len(without.children) :
               Box(with.children[ShiftedBy(at, j)]) = Box(without.children[j])
          /\ with.children[at].localX
               = RAdd(with.node.padding.left, with.node.children[at].x)
          /\ with.children[at].localY
               = RAdd(with.node.padding.top, with.node.children[at].y)

----------------------------------------------------------------------------
(* Properties of the text wrapper *)

\* the words of a text: what stands between its spaces, without the empty
\* pieces that two spaces in a row, or a space at an end, leave
WordsOf(text) == SelectSeq(Split(text, " "), LAMBDA w : w # <<>>)

\* the words of every line, in order
RECURSIVE WordsOfLines(_)
WordsOfLines(lines) ==
  IF lines = <<>> THEN <<>>
  ELSE WordsOf(Head(lines)) \o WordsOfLines(Tail(lines))

\* the width of a returned line, measured as the wrapper measures
LineWidth(line) ==
  getTextWidthWithLetterSpacing(input.ctx, line, input.letterSpacing)

\* C24: every returned line that holds more than one word is at most
\* maxWidth wide; a line wider than maxWidth is one word and nothing else;
\* and the words of the lines, in order, are the words of the paragraph, so
\* no word is split across lines.
C24_LinesFit ==
  pc = "done" =>
    /\ \A k \in 1..Len(output) :
         /\ Len(WordsOf(output[k])) > 1 => RLe(LineWidth(output[k]), input.maxWidth)
         /\ RGt(LineWidth(output[k]), input.maxWidth) =>
              /\ Len(WordsOf(output[k])) = 1
              /\ output[k] = WordsOf(output[k])[1]
    /\ WordsOfLines(output) = WordsOf(input.paragraph)

\* a word of two letters, wider than maxWidth, returned unbroken on a line
\* of its own after a line that fits
C24_Witness ==
  /\ pc = "done"
  /\ Len(output) = 2
  /\ RLe(LineWidth(output[1]), input.maxWidth)
  /\ Len(output[2]) = 2
  /\ WordsOf(output[2]) = <<output[2]>>
  /\ RGt(LineWidth(output[2]), input.maxWidth)

\* a line of two words that fits, before a word wider than maxWidth
C24_TwoWordsFit ==
  /\ pc = "done"
  /\ Len(output) = 2
  /\ Len(WordsOf(output[1])) = 2
  /\ RLe(LineWidth(output[1]), input.maxWidth)
  /\ RGt(LineWidth(output[2]), input.maxWidth)

----------------------------------------------------------------------------
(* The width of a text node *)

\* the surface as layoutTextNode left it: holding the font of the record
SurfaceOf(textLayout) ==
  SetFont(world.ctx, buildFontStack(textLayout.fontWeight, textLayout.fontSize))

\* the width spec of the laid out text node resolves to nothing
WidthIsOpen ==
  ~IsDef(resolveDimensionValue(normalized.widthSpec,
                               input.constraints.availableWidth,
                               input.constraints.allowFill))

\* C25: a TEXT node whose width spec is not determinable is as wide as the
\* widest of the lines of its Text Layout record, the lines left after the
\* cut at maxLines, and at least 0 wide.
C25_WidthOfEmittedLines ==
  (pc = "done" /\ output.err = "" /\ WidthIsOpen) =>
    output.width
      = RMax(Zero, MaxLineWidth(SurfaceOf(output.textLayout),
                                output.textLayout.lines,
                                output.textLayout.letterSpacing))

----------------------------------------------------------------------------
(* Specification of computeSceneLayout on trees three levels deep whose
   nodes are placed away from their parent's corner *)

PositionLeaves ==
  {Rect(Num(R(1)), Num(R(1))),
   Absolute(Rect(Num(R(1)), Num(R(1))), "", R(1), R(2))}

PositionKids ==
  PositionLeaves
  \cup {[Container(mode, NoValue, NoValue, <<k1, k2>>) EXCEPT !.padding = pad] :
          mode \in {"", "horizontal"}, pad \in {NoPadding, PadAll(R(1))},
          k1 \in PositionLeaves, k2 \in PositionLeaves}

PositionScenes ==
  {[Container(mode, Num(R(3)), Num(R(3)), kids) EXCEPT
      !.padding = pad, !.primaryAxisAlign = al] :
     mode \in {"", "horizontal", "vertical"}, pad \in {NoPadding, PadAll(R(1))},
     al \in {"", "CENTER"}, kids \in SeqsUpTo(PositionKids, 2) \ {<<>>}}

InitPositions ==
  /\ pc = "compute"
  /\ input = "scene"
  /\ output = Undef
  /\ world = UnitEnv
  /\ sceneConfig \in PositionScenes
  /\ autoNodeCounter = 0
  /\ normalized = NoNode
  /\ rootLayout = NoLayout
  /\ thrown = NoError
  /\ events = <<>>
  /\ status = 0

SpecPositions == InitPositions /\ [][NextLayout]_vars

\* C26: in the tree computeSceneLayout returns the root is at (0, 0), every
\* other node's absolute position is its parent's absolute position plus its
\* own local position, and assignAbsolutePosition run once more from the
\* same origin changes no field.
C26_AbsoluteIsParentPlusLocal ==
  pc = "laidout" =>
    /\ rootLayout.absX = Zero
    /\ rootLayout.absY = Zero
    /\ \A l \in AllLayouts(rootLayout) :
         \A i \in 1..Len(l.children) :
           /\ l.children[i].absX = RAdd(l.absX, l.children[i].localX)
           /\ l.children[i].absY = RAdd(l.absY, l.children[i].localY)
    /\ assignAbsolutePosition(rootLayout, Zero, Zero) = rootLayout

\* a node two levels down, away from its parent's corner, whose parent is
\* away from the root's corner
C26_Witness ==
  /\ pc = "laidout"
  /\ \E i \in 1..Len(rootLayout.children) :
       LET l == rootLayout.children[i]
       IN  /\ RGt(l.localX, Zero)
           /\ RGt(l.localY, Zero)
           /\ \E j \in 1..Len(l.children) :
                /\ RGt(l.children[j].localX, Zero)
                /\ RGt(l.children[j].localY, Zero)
                /\ l.children[j].absX = RAdd(l.localX, l.children[j].localX)
                /\ l.children[j].absY = RAdd(l.localY, l.children[j].localY)

----------------------------------------------------------------------------
(* The order of the paint walker's calls *)

\* the calls a node makes for itself, by its type: a background, one text
\* call a line, or a load followed by the drawing of the loaded image
OwnCalls(layout) ==
  LET id == layout.node.id
      call(what) == [id |-> id, what |-> what]
  IN  (IF layout.node.type \in {"RECT", "FRAME"} /\ layout.node.backgroundColor # ""
       THEN <<call("background")>> ELSE <<>>)
      \o (IF layout.node.type = "TEXT"
          THEN [k \in 1..Len(layout.textLayout.lines) |-> call("text")]
          ELSE <<>>)
      \o (IF layout.node.type = "IMAGE" /\ layout.node.imageUrl # ""
          THEN <<call("load"), call("image")>> ELSE <<>>)

\* the calls of a whole tree in document order: a node before its children,
\* the children in the order of the list
RECURSIVE DocumentOrder(_)
DocumentOrder(layout) ==
  LET RECURSIVE Below(_)
      Below(i) == IF i > Len(layout.children) THEN <<>>
                  ELSE DocumentOrder(layout.children[i]) \o Below(i + 1)
  IN  OwnCalls(layout) \o Below(1)

\* the index of the first load of an image that cannot be loaded; 0 if none
FirstFailedLoad(calls, urlOf) ==
  LET failing == {i \in 1..Len(calls) :
                    calls[i].what = "load" /\ urlOf[calls[i].id] \in world.broken}
  IN  IF failing = {} THEN 0
      ELSE CHOOSE i \in failing : \A j \in failing : i <= j

\* the image url of each node of a tree, by id
UrlOf(layout) ==
  [id \in {l.node.id : l \in AllLayouts(layout)} |->
     (CHOOSE l \in AllLayouts(layout) : l.node.id = id).node.imageUrl]

\* the calls made, without the surface state they were made under
CallsMade ==
  [i \in 1..Len(output.draws) |->
     [id |-> output.draws[i].id, what |-> output.draws[i].what]]

\* C27: the paint walker's calls are those of the tree in depth-first
\* pre-order document order, up to and including the first load that fails;
\* each load has settled before the next call is made, so no two loads are
\* in flight together, and a failed load ends the paint: nothing is drawn
\* after it.
C27_DocumentOrder ==
  pc # "painting" =>
    LET all == DocumentOrder(rootLayout)
        failed == FirstFailedLoad(all, UrlOf(rootLayout))
    IN  /\ CallsMade = IF failed = 0 THEN all ELSE SubSeq(all, 1, failed)
        /\ (failed # 0) <=> (output.err # "")
        /\ \A i \in 1..Len(CallsMade) :
             CallsMade[i].what = "load" =>
               IF i = Len(CallsMade) THEN output.err # ""
               ELSE CallsMade[i + 1] = [id |-> CallsMade[i].id, what |-> "image"]

\* a first child drawn with its own child, then the load of the second
\* child's image fails: the paint ends there
C27_Witness ==
  /\ pc = "thrown"
  /\ Len(rootLayout.children[1].children) = 1
  /\ CallsMade = << [id |-> "r", what |-> "background"],
                    [id |-> "a", what |-> "background"],
                    [id |-> "a1", what |-> "background"],
                    [id |-> "b", what |-> "background"],
                    [id |-> "b1", what |-> "load"] >>

----------------------------------------------------------------------------
(* Specification of two POST /scene requests served by one process.  The
   handler is an async function: it runs without interruption from its start,
   or from the settling of the promise it awaits, to its next await, and the
   other request's handler can run only in between.  Every variable but the
   shared counter and the surroundings holds one value for each request. *)

Requests == {1, 2}

CounterKids ==
  {Rect(Num(R(1)), Num(R(1))),
   Image(Num(R(1)), Num(R(1))),
   [Container("", NoValue, NoValue, <<Rect(NoValue, NoValue)>>)
      EXCEPT !.id = "a"]}

\* scenes with up to three nodes without id, and one whose root is refused
CounterScenes ==
  {[Container("", Num(R(3)), Num(R(3)), kids) EXCEPT !.id = id] :
     id \in {"", "r"}, kids \in SeqsUpTo(CounterKids, 2)}
  \cup {Container("", NoValue, Num(R(3)), <<Rect(NoValue, NoValue)>>)}

\* what computeSceneLayout leaves and returns, given the outcome r of
\* normalizeSceneNode and the layout of the root: the counter, the normalized
\* tree, the positioned layout and the error thrown, if any
SceneLayoutOutcome(r, layout) ==
  IF r.err # ""
  THEN [counter |-> r.counter, normalized |-> NoNode, layout |-> NoLayout,
        thrown |-> InternalError(r.err)]
  ELSE IF RootDimensionError(r.node) # ""
  THEN [counter |-> r.counter, normalized |-> r.node, layout |-> NoLayout,
        thrown |-> SceneValidationError(RootDimensionError(r.node))]
  ELSE IF layout.err # ""
  THEN [counter |-> r.counter, normalized |-> r.node, layout |-> NoLayout,
        thrown |-> IF layout.err = "SceneValidationError"
                   THEN SceneValidationError("font")
                   ELSE InternalError(layout.err)]
  ELSE [counter |-> r.counter, normalized |-> r.node,
        layout |-> assignAbsolutePosition(layout, Zero, Zero),
        thrown |-> NoError]

\* layoutNode(normalized, measurementCtx, {...}) on the outcome of normalizing
LayoutNormalized(r) ==
  SceneLayoutOutcome(r, layoutNode(r.node, world,
                          createConstraints(r.node.widthSpec.value,
                                            r.node.heightSpec.value, TRUE)))

\* computeSceneLayout as one call, from the counter it finds
ComputeSceneLayout(scene, counter) ==
  LayoutNormalized(normalizeSceneNode(scene, "root", ResetCounter(counter)))

\* the awaits of paintLayoutNode over a tree: one for the call on each node
\* and one for each image load
RECURSIVE AwaitPoints(_)
AwaitPoints(layout) ==
  1 + (IF layout.node.imageUrl # "" /\ layout.node.type = "IMAGE"
       THEN 1 ELSE 0)
    + SumOver([i \in 1..Len(layout.children) |->
                 R(AwaitPoints(layout.children[i]))])[1]

\* serializeLayoutNode: the ids of the tree, in document order
RECURSIVE serializeLayoutNode(_)
serializeLayoutNode(layout) ==
  <<layout.node.id>>
    \o Flatten([i \in 1..Len(layout.children) |->
                  serializeLayoutNode(layout.children[i])])

InitRequests ==
  /\ pc = [r \in Requests |-> "request"]
  /\ input \in [Requests -> CounterScenes]
  /\ autoNodeCounter \in {0, 2}
  /\ world = UnitEnv
  /\ sceneConfig = [r \in Requests |-> Node0]
  /\ normalized = [r \in Requests |-> NoNode]
  /\ rootLayout = [r \in Requests |-> NoLayout]
  /\ thrown = [r \in Requests |-> NoError]
  /\ events = [r \in Requests |-> 0]
  /\ status = [r \in Requests |-> 0]
  /\ output = [r \in Requests |-> <<>>]

\* the handler's run to its first await, given the scene after
\* preprocessSceneText and the outcome c of computeSceneLayout
RunToFirstAwait(r, scene, c) ==
  /\ sceneConfig' = [sceneConfig EXCEPT ![r] = scene]
  /\ autoNodeCounter' = c.counter
  /\ normalized' = [normalized EXCEPT ![r] = c.normalized]
  /\ rootLayout' = [rootLayout EXCEPT ![r] = c.layout]
  /\ thrown' = [thrown EXCEPT ![r] = c.thrown]
  /\ IF c.thrown # NoError
     THEN /\ status' = [status EXCEPT ![r] = ErrorStatus(c.thrown)]
          /\ pc' = [pc EXCEPT ![r] = "responded"]
          /\ events' = events
     ELSE /\ status' = status
          /\ pc' = [pc EXCEPT ![r] = "painting"]
          /\ events' = [events EXCEPT ![r] = AwaitPoints(c.layout)]

\* The handler from its start to its first await (scene.ts lines 19-66): the
\* text is reshaped, computeSceneLayout resets the counter, normalizes and
\* lays out, renderLayoutToImage makes the canvas and starts to paint.  An
\* exception is answered in the same run.
StartRequest(r) ==
  /\ pc[r] = "request"
  /\ RunToFirstAwait(r, preprocessSceneText(input[r]),
                     ComputeSceneLayout(preprocessSceneText(input[r]),
                                        autoNodeCounter))
  /\ UNCHANGED <<input, output, world>>

\* the paint walker resumed after one of its awaits; a load may have failed
ResumePaint(r) ==
  /\ pc[r] = "painting"
  /\ events[r] > 0
  /\ \E loaded \in BOOLEAN :
       /\ (\A l \in AllLayouts(rootLayout[r]) :
             l.node.type # "IMAGE" \/ l.node.imageUrl = "") => loaded
       /\ IF loaded
          THEN /\ events' = [events EXCEPT ![r] = @ - 1]
               /\ UNCHANGED <<pc, status, thrown>>
          ELSE /\ events' = events
               /\ thrown' = [thrown EXCEPT ![r] = InternalError("Error")]
               /\ status' = [status EXCEPT ![r] = 500]
               /\ pc' = [pc EXCEPT ![r] = "responded"]
  /\ UNCHANGED <<input, output, world, sceneConfig, autoNodeCounter, normalized,
                 rootLayout>>

\* await canvas.encode("png"), after the last await of the walker
EncodeImage(r) ==
  /\ pc[r] = "painting"
  /\ events[r] = 0
  /\ pc' = [pc EXCEPT ![r] = "upload"]
  /\ UNCHANGED <<input, output, world, sceneConfig, autoNodeCounter, normalized,
                 rootLayout, thrown, events, status>>

\* await uploadWithFallback(...) settled: the response carries the layout
\* with its ids, or the upload error
FinishUpload(r) ==
  /\ pc[r] = "upload"
  /\ \E ok \in BOOLEAN :
       /\ status' = [status EXCEPT ![r] = IF ok THEN 200 ELSE 500]
       /\ output' = [output EXCEPT ![r] =
                       IF ok THEN serializeLayoutNode(rootLayout[r]) ELSE <<>>]
  /\ pc' = [pc EXCEPT ![r] = "responded"]
  /\ UNCHANGED <<input, world, sceneConfig, autoNodeCounter, normalized,
                 rootLayout, thrown, events>>

NextRequests ==
  \E r \in Requests :
    StartRequest(r) \/ ResumePaint(r) \/ EncodeImage(r) \/ FinishUpload(r)

SpecRequests == InitRequests /\ [][NextRequests]_vars

\* the nodes that came without id, in pre-order: the id each was given and
\* the path it was normalized under
RECURSIVE Minted(_, _, _)
Minted(in, node, path) ==
  LET RECURSIVE Below(_)
      Below(i) == IF i > Len(in.children) THEN <<>>
                  ELSE Minted(in.children[i], node.children[i],
                              node.id \o "-" \o ToString(i - 1)) \o Below(i + 1)
  IN  (IF in.id = "" THEN <<[id |-> node.id, path |-> path]>> ELSE <<>>)
      \o Below(1)

MintedFor(r) == Minted(sceneConfig[r], normalized[r], "root")

\* C28: however two requests interleave, the ids minted for a request's
\* nodes without id are pairwise distinct, carry the counter values 1..k in
\* pre-order, and the normalized tree is the one the scene gets when it is
\* processed alone from a fresh counter.
C28_IdsAsAlone ==
  \A r \in Requests :
    normalized[r] # NoNode =>
      /\ normalized[r] = normalizeSceneNode(sceneConfig[r], "root", 0).node
      /\ \A i \in 1..Len(MintedFor(r)) :
           MintedFor(r)[i].id
             = MintedFor(r)[i].path \o "-node-" \o ToString(i)
      /\ \A i, j \in 1..Len(MintedFor(r)) :
           i # j => MintedFor(r)[i].id # MintedFor(r)[j].id

\* request 1, with three minted ids, is between two awaits of its paint, and
\* request 2, with two, was normalized after it: the counter is at 2
C28_Witness ==
  /\ pc = [r \in Requests |-> "painting"]
  /\ events[1] > 0
  /\ events[1] < AwaitPoints(rootLayout[1])
  /\ autoNodeCounter = 2
  /\ Len(MintedFor(1)) = 3
  /\ Len(MintedFor(2)) = 2
  /\ MintedFor(1)[3].id = "root-node-1-1-node-3"
  /\ MintedFor(2)[2].id = "root-node-1-0-node-2"

----------------------------------------------------------------------------
(* The lines of a text node *)

\* C29: every paragraph of a TEXT node's text, the empty ones included,
\* gives at least one line, so a record that maxLines did not cut has at
\* least as many lines as the text has paragraphs, and every record has at
\* least one line.
C29_ParagraphsKeepLines ==
  (pc = "done" /\ output.err = "") =>
    /\ normalized.maxLines = 0 =>
         Len(output.textLayout.lines) >= Len(Split(normalized.text, "\n"))
    /\ Len(output.textLayout.lines) >= 1

----------------------------------------------------------------------------
(* Specification of computeSceneLayout followed by the canvas of
   renderLayoutToImage, on roots of every shape with padding *)

RootSizes == {Num(Zero), Num(R(1)), Num(R(3)), Num(Q(5, 2))}

RootPaddings == {NoPadding, PadAll(R(1)), PadAll(R(2)), PadAll(R(-1))}

RootKids ==
  {<<Rect(Num(R(1)), Num(R(1)))>>,
   <<Rect(FillStr, NoValue), Rect(Num(R(4)), Num(R(4)))>>}

\* a leaf, a TEXT node, a NONE-mode container and the auto-layout containers
RootShapes(w, h) ==
  {Rect(w, h), Frame(w, h), Text(<<"a", " ", "a">>, w, h)}
  \cup {Container(mode, w, h, kids) :
          mode \in {"", "horizontal", "vertical"}, kids \in RootKids}

PaddedRoots ==
  {[root EXCEPT !.padding = pad] :
     root \in UNION {RootShapes(w, h) : w \in RootSizes, h \in RootSizes},
     pad \in RootPaddings}

InitRoots ==
  /\ pc = "compute"
  /\ input = "scene"
  /\ output = Undef
  /\ world = UnitEnv
  /\ sceneConfig \in PaddedRoots
  /\ autoNodeCounter = 0
  /\ normalized = NoNode
  /\ rootLayout = NoLayout
  /\ thrown = NoError
  /\ events = <<>>
  /\ status = 0

\* Math.ceil of a fraction
Ceil(x) == R(-((-x[1]) \div x[2]))

\* const width = Math.ceil(layout.width); const height = Math.ceil(layout.height)
CanvasSize(layout) ==
  [width |-> Ceil(layout.width), height |-> Ceil(layout.height)]

\* createCanvas(width, height) of renderLayoutToImage; the canvas library may
\* throw on a size that is not positive
CreateCanvas ==
  /\ pc = "laidout"
  /\ \E canvasOk \in BOOLEAN :
       /\ (RGt(rootLayout.width, Zero) /\ RGt(rootLayout.height, Zero)) => canvasOk
       /\ IF canvasOk
          THEN /\ output' = CanvasSize(rootLayout)
               /\ pc' = "canvas"
               /\ thrown' = thrown
          ELSE /\ output' = output
               /\ pc' = "thrown"
               /\ thrown' = InternalError("Error")
  /\ UNCHANGED <<input, world, sceneConfig, autoNodeCounter, normalized,
                 rootLayout, events, status>>

NextRoots == NextLayout \/ CreateCanvas

SpecRoots == InitRoots /\ [][NextRoots]_vars

(* The size of the root *)

RootLaidOut == pc \in {"laidout", "canvas"}

DeclaredWidth == normalized.widthSpec.value

DeclaredHeight == normalized.heightSpec.value

RootIsAbsoluteContainer ==
  IsContainer(normalized) /\ normalized.layoutMode = "NONE"

\* The statement without the minimum of a NONE-mode container: the root is as
\* large as declared whatever its shape and padding.
C30_RootSizeAsStated ==
  (RootLaidOut /\ RLe(Zero, DeclaredWidth) /\ RLe(Zero, DeclaredHeight)) =>
    /\ rootLayout.width = DeclaredWidth
    /\ rootLayout.height = DeclaredHeight
    /\ pc = "canvas" =>
         output = [width |-> Ceil(DeclaredWidth), height |-> Ceil(DeclaredHeight)]

\* C30: for a scene that computeSceneLayout accepts with non-negative root
\* dimensions, the root Layout Result is as wide and as high as the root
\* declares, except that a NONE-mode container root is at least as wide as
\* its left and right padding together and at least as high as its top and
\* bottom padding together; the canvas is the ceiling of that size.
C30_RootSize ==
  (RootLaidOut /\ RLe(Zero, DeclaredWidth) /\ RLe(Zero, DeclaredHeight)) =>
    LET padding == normalized.padding
        width == IF RootIsAbsoluteContainer
                 THEN RMax(DeclaredWidth, RAdd(padding.left, padding.right))
                 ELSE DeclaredWidth
        height == IF RootIsAbsoluteContainer
                  THEN RMax(DeclaredHeight, RAdd(padding.top, padding.bottom))
                  ELSE DeclaredHeight
    IN  /\ rootLayout.width = width
        /\ rootLayout.height = height
        /\ pc = "canvas" =>
             output = [width |-> Ceil(width), height |-> Ceil(height)]

\* a NONE-mode container root declared 1 wide and 5/2 high with padding 1 all
\* round comes out 2 wide and 5/2 high, on a canvas of 2 by 3
C30_Witness ==
  /\ pc = "canvas"
  /\ RootIsAbsoluteContainer
  /\ DeclaredWidth = R(1)
  /\ DeclaredHeight = Q(5, 2)
  /\ normalized.padding = normalizePadding(PadAll(R(1)))
  /\ rootLayout.width = R(2)
  /\ rootLayout.height = Q(5, 2)
  /\ output = [width |-> R(2), height |-> R(3)]

\* an auto-layout root with padding larger than its size stays as declared
C30_AutoLayoutKeepsSize ==
  /\ pc = "canvas"
  /\ normalized.layoutMode = "HORIZONTAL"
  /\ IsContainer(normalized)
  /\ DeclaredWidth = R(1)
  /\ normalized.padding = normalizePadding(PadAll(R(2)))
  /\ rootLayout.width = R(1)

====
